---- MODULE Spec2Model ----
(***************************************************************************)
(* git-folder: the chunked upload tracker with its cleanup timer, the      *)
(* chunk-upload REST handlers, GitCommand.execute and the Git operations   *)
(* built on it (GitCommand, BranchService, FileOperationsService), auth.    *)
(*                                                                         *)
(* An async function is modelled by one action per synchronous stretch of  *)
(* its body: a stretch runs to the next await without interruption (one    *)
(* event-loop turn); other requests interleave only between stretches.     *)
(***************************************************************************)
EXTENDS Integers, Sequences, FiniteSets, TLC

\* ------------------------------------------------------------------ bounds

\* Number of upload identifiers that initializeChunkedUpload hands out.
MaxUploads == 1
\* Largest chunk count a client declares at initialization.
MaxChunks == 2
\* Cap on the chunk uploads accepted in a run (received plus in flight).
MaxPush == 2
\* Number of 'data' events a child process emits before it closes.
MaxData == 3
\* Length of the branch names that are enumerated in full.
MaxNameLen == 3
\* Number of half hours the clock advances over.
MaxTicks == 4
\* Number of browser sessions in the session store.
MaxSessions == 2
\* Requests in flight at once.
MaxRequests == 2
\* Rows of the repositories table.
MaxRepos == 2
\* Rows of the shared_folders table.
MaxFolders == 1
\* Segments of a client-supplied path.
MaxPathLen == 3

\* ------------------------------------------------- constants of the program

\* 10 * 1024 * 1024: the chunk size handleChunkUpload divides totalSize by.
CHUNK_SIZE == 10485760
\* 60 * 60 * 1000: the age (ms) after which the cleanup timer drops a session,
\* and the period of the timer.
ONE_HOUR == 3600000
\* The clock is read in steps of half an hour.
Tick == ONE_HOUR \div 2

\* ------------------------------------------------------------ input domains

UploadIds == 1..MaxUploads
\* Identifiers a request may name: the allocated ones and one never allocated.
RequestIds == 1..(MaxUploads + 1)
\* Requests to the upload tracker that may be in flight at once.
Slots == {1, 2}
RepoIds == {1, 2}
Filenames == {"demo.bin"}
\* Declared total sizes: a small file (one 10MB chunk) and one of two chunks.
TotalSizes == {20, CHUNK_SIZE + 1}
TotalChunkCounts == 1..MaxChunks
\* Chunk numbers a request may carry (MaxChunks is out of every range).
ChunkNumbers == 0..MaxChunks
\* Chunk payloads (byte sequences), of different lengths.
ChunkData == {<<97, 98>>, <<99>>}

\* null, for a lookup that finds no UploadProgress (no session has uploadId 0).
\* touchedAt is a history field: the time the object was last written to.
Null == [uploadId |-> 0, filename |-> "", totalSize |-> 0, uploadedSize |-> 0,
         chunks |-> <<>>, completed |-> FALSE, createdAt |-> 0, touchedAt |-> 0]
\* A chunk file that does not exist (no byte is negative).
NoFile == <<-1>>
\* undefined, for the missingChunks of a complete upload.
Undefined == <<-1>>

VARIABLES
    uploadProgress,  \* keys of the Map<string, UploadProgress>
    progressObj,     \* the UploadProgress object allocated for each id
    nextId,          \* next fresh identifier (crypto.randomBytes never repeats)
    tempDirs,        \* ids whose temp/uploads/<id> directory exists
    chunkFiles,      \* chunkFiles[id][n]: content of chunk-<n>, or NoFile
    calls,           \* calls[s]: the request in flight in slot s
    event,           \* outcome of the step just taken (return value / error)
    repositories,    \* ids of the repositories the requesting user owns
    uploadedFiles,   \* arguments of the uploadFile calls made by finalize
    declaredChunks,  \* history: totalChunks passed to initializeChunkedUpload
    assembledIds     \* history: ids for which assembleChunks returned bytes

uploadVars == <<uploadProgress, progressObj, nextId, tempDirs, chunkFiles, calls,
                event, repositories, uploadedFiles, declaredChunks, assembledIds>>

\* GitCommand.execute: one call, its child process and its promise.
VARIABLES
    proc,        \* "idle", "spawnError" (spawn failed, 'error' not yet emitted),
                 \* "running", "errored" ('error' emitted), "closed" ('close' emitted)
    opts,        \* { ...defaultOptions, ...options }: timeout and maxBuffer
    sysError,    \* error.message of the spawn failure
    signal,      \* signal sent to the child when the timeout elapsed, or "none"
    stdout,      \* let stdout
    stderr,      \* let stderr
    stdoutSize,  \* let stdoutSize
    stderrSize,  \* let stderrSize
    promise,     \* the promise execute returned
    emitted,     \* history: everything the child wrote, per stream
    closeCode    \* history: the code 'close' was emitted with (NullCode: none)

execVars == <<proc, opts, sysError, signal, stdout, stderr, stdoutSize, stderrSize,
              promise, emitted, closeCode>>

\* The Git facade (GitCommand), BranchService and FileOperationsService: the
\* operation last called, what it did, and the repository it worked on.
VARIABLES
    gitOp,       \* the operation being served, its arguments, and the branch
                 \* that is checked out in the repository it works on
    gitRun       \* its subprocess calls in order, and what it returned or threw

gitVars == <<gitOp, gitRun>>

\* The clock and the cleanup timer of the upload tracker.
VARIABLES
    now,         \* Date.now(), in ms since the process started
    lastSweep    \* the time the setInterval callback last ran (0: not yet)

timeVars == <<now, lastSweep>>

\* Authentication: the users table, the session store, and the request that
\* is passing through authMiddleware, requireAuth and its route handler.
VARIABLES
    users,       \* ids of the rows of the users table
    sessions,    \* sessions[sid]: the userId the session carries (NoUser: none)
    req,         \* the requests in flight: the position of each and what it carries
    res,         \* the response to the request last served, with what
                 \* authMiddleware saw while serving it
    passport     \* passport[sid]: the user id passport keeps in the session
                 \* under session.passport.user (NoUser: none)

authVars == <<users, sessions, req, res, passport>>

\* RepositoryService: the repositories table, the working trees on disk, and
\* the calls in flight.
VARIABLES
    repoRows,    \* rows of the repositories table
    workTrees,   \* local paths that exist on disk, as <<owner id, name>>
    repoCalls,   \* repoCalls[k]: the call in flight in slot k
    repoRet,     \* what the call that ended last returned or threw
    deletedIds   \* history: ids for which deleteRepository returned normally

repoVars == <<repoRows, workTrees, repoCalls, repoRet, deletedIds>>

\* The shared-folders router: the shared_folders and folder_permissions
\* tables and the requests in flight.
VARIABLES
    folders,      \* ids of the rows of shared_folders
    perms,        \* perms[f][u]: permission_level of user u on folder f
    folderCalls,  \* folderCalls[k]: the request in flight in slot k
    folderRes     \* the response sent last

folderVars == <<folders, perms, folderCalls, folderRes>>

\* FileOperationsService and the filesystem: the operation run last and the
\* absolute paths it handed to fs.
VARIABLES
    fileOp

vars == <<uploadVars, execVars, gitVars, timeVars, authVars, repoVars, folderVars, fileOp>>
notFolderVars == <<uploadVars, execVars, gitVars, timeVars, authVars, repoVars, fileOp>>
notFileVars == <<uploadVars, execVars, gitVars, timeVars, authVars, repoVars, folderVars>>

\* What each part of the program leaves alone.
notUploadVars == <<execVars, gitVars, timeVars, authVars, repoVars, folderVars, fileOp>>
notExecVars == <<uploadVars, gitVars, timeVars, authVars, repoVars, folderVars, fileOp>>
notGitVars == <<uploadVars, execVars, timeVars, authVars, repoVars, folderVars, fileOp>>
notTimerVars == <<execVars, gitVars, authVars, repoVars, folderVars, fileOp>>
notAuthVars == <<uploadVars, execVars, gitVars, timeVars, repoVars, folderVars, fileOp>>
notRepoVars == <<uploadVars, execVars, gitVars, timeVars, authVars, folderVars, fileOp>>

\* ------------------------------------------------------------ pure helpers

\* Math.ceil(a / b) for a >= 0, b > 0.
CeilDiv(a, b) == (a + b - 1) \div b

\* Array.prototype.includes
Includes(seq, x) == \E i \in 1..Len(seq) : seq[i] = x

\* the loop `for (i = 0; i < totalChunks; i++) if (!chunks.includes(i)) push(i)`
MissingChunks(chunks, totalChunks) ==
    SelectSeq([i \in 1..totalChunks |-> i - 1], LAMBDA i : ~Includes(chunks, i))

RECURSIVE InsertSorted(_, _)
InsertSorted(seq, x) ==
    IF seq = <<>> THEN <<x>>
    ELSE IF x < Head(seq) THEN <<x>> \o seq
    ELSE <<Head(seq)>> \o InsertSorted(Tail(seq), x)

\* Array.prototype.sort((a, b) => a - b)
RECURSIVE SortChunks(_)
SortChunks(seq) ==
    IF seq = <<>> THEN <<>>
    ELSE InsertSorted(SortChunks(SubSeq(seq, 1, Len(seq) - 1)), seq[Len(seq)])

\* Buffer.concat
RECURSIVE BufferConcat(_)
BufferConcat(bufs) ==
    IF bufs = <<>> THEN <<>> ELSE Head(bufs) \o BufferConcat(Tail(bufs))

\* getUploadProgress: uploadProgress.get(uploadId) || null
getUploadProgress(uploadId) ==
    IF uploadId \in uploadProgress THEN progressObj[uploadId] ELSE Null

\* ------------------------------------------------------------------ records

NoFiles == [n \in ChunkNumbers |-> NoFile]

\* A call's locals, with three history fields written when assembleChunks is
\* called: late (an earlier call had already returned the bytes of this upload),
\* whole (every declared chunk index had been received) and count (how many
\* indices were recorded).
IdleCall == [op |-> "idle", pc |-> "idle", id |-> 0, chunkNumber |-> 0,
             chunkData |-> <<>>, idx |-> 0, chunks |-> <<>>, caller |-> "none",
             late |-> FALSE, whole |-> FALSE, count |-> 0]

\* What the step just taken returned, threw or answered, with the upload it
\* returned for (errors carry their message only).
NoEvent == [op |-> "none", kind |-> "none", id |-> 0, error |-> "", completed |-> FALSE,
            missingChunks |-> Undefined, bytes |-> <<>>, status |-> 0, late |-> FALSE,
            whole |-> FALSE]

\* The chunk indices recorded for an upload, and whether they cover the range
\* the client declared when it initialized the upload.
Received(id) == {progressObj[id].chunks[i] : i \in 1..Len(progressObj[id].chunks)}

AllReceived(id) ==
    /\ id \in UploadIds
    /\ declaredChunks[id] > 0
    /\ \A i \in 0..(declaredChunks[id] - 1) : i \in Received(id)

\* A new request takes the first free slot (which slot it takes is immaterial).
FreeSlot(s) ==
    /\ calls[s].op = "idle"
    /\ \A s2 \in Slots : s2 < s => calls[s2].op # "idle"

\* Chunk uploads so far: recorded ones plus the handleChunkUpload calls in flight.
RECURSIVE Recorded(_)
Recorded(ids) ==
    IF ids = {} THEN 0
    ELSE LET id == CHOOSE x \in ids : TRUE
         IN Len(progressObj[id].chunks) + Recorded(ids \ {id})

ChunkUploads ==
    Recorded(UploadIds) + Cardinality({s \in Slots : calls[s].op = "handleChunkUpload"})

\* An UploadProgress object that is no longer in the registry and that no call in
\* flight (other than slot s, which is finishing) still holds is unreachable: the
\* runtime collects it.
Garbage(s, id, registry) ==
    /\ id \notin registry
    /\ \A s2 \in Slots \ {s} : calls[s2].op = "idle" \/ calls[s2].id # id

Release(s, id, objects, registry) ==
    /\ progressObj' = IF Garbage(s, id, registry)
                      THEN [objects EXCEPT ![id] = Null] ELSE objects
    /\ declaredChunks' = IF Garbage(s, id, registry)
                         THEN [declaredChunks EXCEPT ![id] = 0] ELSE declaredChunks

InitUpload ==
    /\ uploadProgress = {}
    /\ progressObj = [id \in UploadIds |-> Null]
    /\ nextId = 1
    /\ tempDirs = {}
    /\ chunkFiles = [id \in UploadIds |-> NoFiles]
    /\ calls = [s \in Slots |-> IdleCall]
    /\ event = NoEvent
    /\ repositories = {1}
    /\ uploadedFiles = <<>>
    /\ declaredChunks = [id \in UploadIds |-> 0]
    /\ assembledIds = {}

InitTime ==
    /\ now = 0
    /\ lastSweep = 0

\* ------------------------------------------------- initializeChunkedUpload

\* The identifier is 16 fresh random bytes and reaches the client only when the
\* function returns, after mkdir: no other request can name it in between.
initializeChunkedUpload(filename, totalSize, totalChunks) ==
    /\ nextId <= MaxUploads
    /\ LET uploadId == nextId IN
        /\ uploadProgress' = uploadProgress \cup {uploadId}
        /\ progressObj' = [progressObj EXCEPT ![uploadId] =
                              [uploadId |-> uploadId, filename |-> filename,
                               totalSize |-> totalSize, uploadedSize |-> 0,
                               chunks |-> <<>>, completed |-> FALSE,
                               createdAt |-> now, touchedAt |-> now]]
        /\ tempDirs' = tempDirs \cup {uploadId}
        /\ declaredChunks' = [declaredChunks EXCEPT ![uploadId] = totalChunks]
        /\ event' = [NoEvent EXCEPT !.op = "initializeChunkedUpload",
                                    !.kind = "return", !.id = uploadId]
    /\ nextId' = nextId + 1
    /\ UNCHANGED <<chunkFiles, calls, repositories, uploadedFiles, assembledIds>>

\* --------------------------------------------------------- handleChunkUpload

\* Variant without the lookup of lines 96-99: the write is started for any id.
handleChunkUpload_start_noLookup(s, uploadId, chunkNumber, chunkData) ==
    /\ FreeSlot(s)
    /\ ChunkUploads < MaxPush
    /\ calls' = [calls EXCEPT ![s] =
                    [IdleCall EXCEPT !.op = "handleChunkUpload", !.pc = "writeFile",
                                     !.id = uploadId, !.chunkNumber = chunkNumber,
                                     !.chunkData = chunkData]]
    /\ event' = NoEvent
    /\ UNCHANGED <<uploadProgress, progressObj, nextId, tempDirs, chunkFiles, repositories,
                   uploadedFiles, declaredChunks, assembledIds>>

\* Lines 96-104: look the session up, throw if absent, start fs.writeFile.
handleChunkUpload_start(s, uploadId, chunkNumber, chunkData) ==
    /\ FreeSlot(s)
    /\ IF getUploadProgress(uploadId) = Null
       THEN /\ event' = [NoEvent EXCEPT !.op = "handleChunkUpload", !.kind = "error",
                                        !.error = "Upload not found"]
            /\ UNCHANGED calls
       ELSE /\ ChunkUploads < MaxPush
            /\ calls' = [calls EXCEPT ![s] =
                            [IdleCall EXCEPT !.op = "handleChunkUpload", !.pc = "writeFile",
                                             !.id = uploadId, !.chunkNumber = chunkNumber,
                                             !.chunkData = chunkData]]
            /\ event' = NoEvent
    /\ UNCHANGED <<uploadProgress, progressObj, nextId, tempDirs, chunkFiles, repositories,
                   uploadedFiles, declaredChunks, assembledIds>>

\* Line 104: fs.writeFile(chunkPath, chunkData) takes effect; ENOENT if the
\* directory has been removed meanwhile.
handleChunkUpload_writeFile(s) ==
    /\ calls[s].op = "handleChunkUpload"
    /\ calls[s].pc = "writeFile"
    /\ LET c == calls[s] IN
       IF c.id \in tempDirs
       THEN /\ chunkFiles' = [chunkFiles EXCEPT ![c.id][c.chunkNumber] = c.chunkData]
            /\ calls' = [calls EXCEPT ![s].pc = "written"]
            /\ event' = NoEvent
       ELSE /\ calls' = [calls EXCEPT ![s] = IdleCall]
            /\ event' = [NoEvent EXCEPT !.op = "handleChunkUpload", !.kind = "error",
                                        !.error = "ENOENT"]
            /\ UNCHANGED chunkFiles
    /\ IF calls'[s].op = "idle"
       THEN Release(s, calls[s].id, progressObj, uploadProgress)
       ELSE UNCHANGED <<progressObj, declaredChunks>>
    /\ UNCHANGED <<uploadProgress, nextId, tempDirs, repositories, uploadedFiles,
                   assembledIds>>

\* Variant that replaces the recorded indices by the new one instead of
\* appending to them.
handleChunkUpload_resume_overwrites(s) ==
    /\ calls[s].op = "handleChunkUpload"
    /\ calls[s].pc = "written"
    /\ LET c == calls[s]
           progress == progressObj[c.id]
           chunks == <<c.chunkNumber>>
           totalChunks == CeilDiv(progress.totalSize, CHUNK_SIZE)
           missingChunks == MissingChunks(chunks, totalChunks)
           completed == IF Len(missingChunks) = 0 THEN TRUE ELSE progress.completed
       IN
        /\ Release(s, c.id,
                   [progressObj EXCEPT ![c.id] =
                       [progress EXCEPT !.chunks = chunks,
                                        !.uploadedSize = @ + Len(c.chunkData),
                                        !.completed = completed,
                                        !.touchedAt = now]],
                   uploadProgress)
        /\ event' = [NoEvent EXCEPT !.op = "handleChunkUpload", !.kind = "return",
                                    !.id = c.id, !.completed = completed,
                                    !.missingChunks =
                                        IF Len(missingChunks) > 0 THEN missingChunks
                                        ELSE Undefined]
    /\ calls' = [calls EXCEPT ![s] = IdleCall]
    /\ UNCHANGED <<uploadProgress, nextId, tempDirs, chunkFiles, repositories,
                   uploadedFiles, assembledIds>>

\* Lines 106-127: record the chunk, recompute completion, return.
handleChunkUpload_resume(s) ==
    /\ calls[s].op = "handleChunkUpload"
    /\ calls[s].pc = "written"
    /\ LET c == calls[s]
           progress == progressObj[c.id]
           chunks == Append(progress.chunks, c.chunkNumber)
           totalChunks == CeilDiv(progress.totalSize, CHUNK_SIZE)
           missingChunks == MissingChunks(chunks, totalChunks)
           completed == IF Len(missingChunks) = 0 THEN TRUE ELSE progress.completed
       IN
        /\ Release(s, c.id,
                   [progressObj EXCEPT ![c.id] =
                       [progress EXCEPT !.chunks = chunks,
                                        !.uploadedSize = @ + Len(c.chunkData),
                                        !.completed = completed,
                                        !.touchedAt = now]],
                   uploadProgress)
        /\ event' = [NoEvent EXCEPT !.op = "handleChunkUpload", !.kind = "return",
                                    !.id = c.id, !.completed = completed,
                                    !.missingChunks =
                                        IF Len(missingChunks) > 0 THEN missingChunks
                                        ELSE Undefined]
    /\ calls' = [calls EXCEPT ![s] = IdleCall]
    /\ UNCHANGED <<uploadProgress, nextId, tempDirs, chunkFiles, repositories,
                   uploadedFiles, assembledIds>>

\* ------------------------------------------------------------ assembleChunks

\* What a failed assembleChunks leaves behind: the rejection for a direct caller,
\* the finalize handler's catch block (lines 711-720 of the router) for a request.
AssembleError(caller, message, late) ==
    IF caller = "finalize"
    THEN [NoEvent EXCEPT !.op = "finalize", !.kind = "response", !.error = message,
                         !.late = late,
                         !.status = IF message = "Upload not completed" THEN 400
                                    ELSE IF message = "Upload not found" THEN 404
                                    ELSE 500]
    ELSE [NoEvent EXCEPT !.op = "assembleChunks", !.kind = "error", !.error = message,
                         !.late = late]

\* Lines 133-146: the completion check, the in-place sort, and the first turn of
\* the for-of loop up to its await. sortedChunks is progress.chunks itself, so
\* the loop walks the live array.
AssembleBegin(s, uploadId, caller) ==
    LET progress == getUploadProgress(uploadId) IN
    IF progress = Null \/ ~progress.completed
    THEN /\ event' = AssembleError(caller, "Upload not completed", uploadId \in assembledIds)
         /\ UNCHANGED <<calls, progressObj>>
    ELSE LET sortedChunks == SortChunks(progress.chunks) IN
         /\ progressObj' = [progressObj EXCEPT ![uploadId].chunks = sortedChunks]
         /\ calls' = [calls EXCEPT ![s] =
                [IdleCall EXCEPT !.op = "assembleChunks",
                                 !.pc = IF Len(sortedChunks) > 0 THEN "readFile" ELSE "rm",
                                 !.id = uploadId,
                                 !.idx = 1,
                                 !.chunkNumber = IF Len(sortedChunks) > 0
                                                 THEN sortedChunks[1] ELSE 0,
                                 !.caller = caller,
                                 !.late = uploadId \in assembledIds,
                                 !.whole = AllReceived(uploadId),
                                 !.count = Len(sortedChunks)]]
         /\ event' = NoEvent

assembleChunks_start(s, uploadId) ==
    /\ FreeSlot(s)
    /\ AssembleBegin(s, uploadId, "direct")
    /\ UNCHANGED <<uploadProgress, nextId, tempDirs, chunkFiles, repositories,
                   uploadedFiles, declaredChunks, assembledIds>>

\* Lines 146-147 and the next turn of the loop: fs.readFile has delivered the
\* chunk (ENOENT if the file is not there), it is pushed, and the loop either
\* starts the next read or falls through to the cleanup.
assembleChunks_readFile(s) ==
    /\ calls[s].op = "assembleChunks"
    /\ calls[s].pc = "readFile"
    /\ LET c == calls[s]
           chunkData == IF c.id \in tempDirs THEN chunkFiles[c.id][c.chunkNumber]
                        ELSE NoFile
           live == progressObj[c.id].chunks
       IN
       IF chunkData = NoFile
       THEN /\ calls' = [calls EXCEPT ![s] = IdleCall]
            /\ event' = AssembleError(c.caller, "ENOENT", c.late)
       ELSE /\ calls' = [calls EXCEPT ![s] =
                  [c EXCEPT !.chunks = Append(c.chunks, chunkData),
                            !.idx = c.idx + 1,
                            !.pc = IF c.idx + 1 <= Len(live) THEN "readFile" ELSE "rm",
                            !.chunkNumber = IF c.idx + 1 <= Len(live)
                                            THEN live[c.idx + 1] ELSE 0]]
            /\ event' = NoEvent
    /\ IF calls'[s].op = "idle"
       THEN Release(s, calls[s].id, progressObj, uploadProgress)
       ELSE UNCHANGED <<progressObj, declaredChunks>>
    /\ UNCHANGED <<uploadProgress, nextId, tempDirs, chunkFiles, repositories,
                   uploadedFiles, assembledIds>>

\* Line 151: fs.rm(tempDir, { recursive: true, force: true }).
assembleChunks_rm(s) ==
    /\ calls[s].op = "assembleChunks"
    /\ calls[s].pc = "rm"
    /\ tempDirs' = tempDirs \ {calls[s].id}
    /\ chunkFiles' = [chunkFiles EXCEPT ![calls[s].id] = NoFiles]
    /\ calls' = [calls EXCEPT ![s].pc = "removed"]
    /\ event' = NoEvent
    /\ UNCHANGED <<uploadProgress, progressObj, nextId, repositories, uploadedFiles,
                   declaredChunks, assembledIds>>

\* Variant without uploadProgress.delete(uploadId) of line 152.
assembleChunks_return_noDelete(s) ==
    /\ calls[s].op = "assembleChunks"
    /\ calls[s].pc = "removed"
    /\ LET c == calls[s]
           fileBuffer == BufferConcat(c.chunks)
       IN
        /\ assembledIds' = assembledIds \cup {c.id}
        /\ IF c.caller = "finalize"
           THEN /\ uploadedFiles' = Append(uploadedFiles,
                                        [filename |-> progressObj[c.id].filename,
                                         fileBuffer |-> fileBuffer])
                /\ event' = [NoEvent EXCEPT !.op = "finalize", !.kind = "response",
                                        !.id = c.id, !.bytes = fileBuffer,
                                        !.status = 200, !.late = c.late,
                                        !.whole = c.whole]
           ELSE /\ event' = [NoEvent EXCEPT !.op = "assembleChunks", !.kind = "return",
                                        !.id = c.id, !.bytes = fileBuffer,
                                        !.late = c.late, !.whole = c.whole]
                /\ UNCHANGED uploadedFiles
    /\ calls' = [calls EXCEPT ![s] = IdleCall]
    /\ UNCHANGED <<uploadProgress, progressObj, declaredChunks, nextId, tempDirs,
                   chunkFiles, repositories>>

\* Lines 152-154: drop the registry entry and return the concatenation. For a
\* finalize request the handler continues in the same turn (router lines
\* 667-710): it looks the session up again, answers 404 if it is gone, and
\* otherwise passes the buffer and the session's filename to uploadFile.
assembleChunks_return(s) ==
    /\ calls[s].op = "assembleChunks"
    /\ calls[s].pc = "removed"
    /\ LET c == calls[s]
           fileBuffer == BufferConcat(c.chunks)
       IN
        /\ uploadProgress' = uploadProgress \ {c.id}
        /\ assembledIds' = assembledIds \cup {c.id}
        /\ IF c.caller = "finalize"
           THEN IF c.id \notin uploadProgress'
                THEN /\ event' = [NoEvent EXCEPT !.op = "finalize", !.kind = "response",
                                        !.id = c.id, !.error = "Upload not found",
                                        !.bytes = fileBuffer, !.status = 404,
                                        !.late = c.late, !.whole = c.whole]
                     /\ UNCHANGED uploadedFiles
                ELSE /\ uploadedFiles' = Append(uploadedFiles,
                                        [filename |-> progressObj[c.id].filename,
                                         fileBuffer |-> fileBuffer])
                     /\ event' = [NoEvent EXCEPT !.op = "finalize", !.kind = "response",
                                        !.id = c.id, !.bytes = fileBuffer,
                                        !.status = 200, !.late = c.late,
                                        !.whole = c.whole]
           ELSE /\ event' = [NoEvent EXCEPT !.op = "assembleChunks", !.kind = "return",
                                        !.id = c.id, !.bytes = fileBuffer,
                                        !.late = c.late, !.whole = c.whole]
                /\ UNCHANGED uploadedFiles
    /\ Release(s, calls[s].id, progressObj, uploadProgress')
    /\ calls' = [calls EXCEPT ![s] = IdleCall]
    /\ UNCHANGED <<nextId, tempDirs, chunkFiles, repositories>>

\* ------------------------------------------------------- the cleanup timer

\* Lines 21-30: the setInterval callback, due one hour after it last ran. It
\* runs in one turn: every session created more than an hour ago and not
\* completed is deleted from the Map. Nothing else is touched.
sweep ==
    /\ now - lastSweep >= ONE_HOUR
    /\ LET oneHourAgo == now - ONE_HOUR
           expired == {id \in uploadProgress :
                          /\ progressObj[id].createdAt < oneHourAgo
                          /\ ~progressObj[id].completed}
           registry == uploadProgress \ expired
           collected == {id \in UploadIds :
                            /\ id \notin registry
                            /\ \A s \in Slots : calls[s].op = "idle" \/ calls[s].id # id}
       IN
        /\ uploadProgress' = registry
        /\ progressObj' = [id \in UploadIds |->
                              IF id \in collected THEN Null ELSE progressObj[id]]
        /\ declaredChunks' = [id \in UploadIds |->
                                 IF id \in collected THEN 0 ELSE declaredChunks[id]]
    /\ lastSweep' = now
    /\ event' = [NoEvent EXCEPT !.op = "sweep"]
    /\ UNCHANGED <<nextId, tempDirs, chunkFiles, calls, repositories, uploadedFiles,
                   assembledIds, now>>

\* Half an hour passes.
tick ==
    /\ now < MaxTicks * Tick
    /\ now' = now + Tick
    /\ UNCHANGED <<lastSweep, uploadVars>>

\* ------------------------------------------- authMiddleware and requireAuth

\* The id of the row of the development user; no row has id 0.
DevUser == 1
NoUser == 0
\* The id of the row of a user who signs in through an OAuth provider.
OAuthUser == 2
SessionIds == 1..MaxSessions
\* Requests that can be in flight at once.
ReqSlots == 1..MaxRequests
\* process.env.AUTH_MODE, read by every request.
AuthModes == {"dev", "production"}
\* Routes: one behind requireAuth, and the three of the auth router that write
\* the session.
Routes == {"protected", "dev-login", "logout", "oauth-callback"}

IdleReq == [pc |-> "idle", mode |-> "", route |-> "", sid |-> 0, userId |-> NoUser,
            found |-> FALSE, threw |-> FALSE, conflict |-> FALSE, user |-> NoUser,
            isAuthenticated |-> FALSE, passportUser |-> NoUser]

NoRes == [status |-> 0, error |-> "", handlerRan |-> FALSE, mode |-> "", route |-> "",
          sid |-> 0, userId |-> NoUser, found |-> FALSE, threw |-> FALSE,
          conflict |-> FALSE, user |-> NoUser, passportUser |-> NoUser]

InitAuth ==
    /\ users = {}
    /\ sessions = [sid \in SessionIds |-> NoUser]
    /\ req = [k \in ReqSlots |-> IdleReq]
    /\ res = NoRes
    /\ passport = [sid \in SessionIds |-> NoUser]

\* The response to request r.
Respond(r, status, error, handlerRan) ==
    [status |-> status, error |-> error, handlerRan |-> handlerRan, mode |-> r.mode,
     route |-> r.route, sid |-> r.sid, userId |-> r.userId, found |-> r.found,
     threw |-> r.threw, conflict |-> r.conflict, user |-> r.user,
     passportUser |-> r.passportUser]

\* Variant of requireAuth that lets every request through.
requireAuth_noCheck(k, r) ==
    /\ req' = [req EXCEPT ![k] = IdleReq]
    /\ res' = Respond(r, 200, "", TRUE)
    /\ UNCHANGED sessions

\* requireAuth, and the route handler behind it when it calls next().
requireAuth(k, r) ==
    /\ req' = [req EXCEPT ![k] = IdleReq]
    /\ res' = IF ~r.isAuthenticated
              THEN Respond(r, 401, "Authentication required", FALSE)
              ELSE Respond(r, 200, "", TRUE)
    /\ UNCHANGED sessions

\* POST /dev-login (auth.ts lines 31-50).
devLogin(k, r) ==
    /\ req' = [req EXCEPT ![k] = IdleReq]
    /\ IF r.mode # "dev"
       THEN /\ res' = Respond(r, 403, "Dev mode not enabled", FALSE)
            /\ UNCHANGED sessions
       ELSE IF r.user # NoUser
       THEN /\ sessions' = [sessions EXCEPT ![r.sid] = r.user]
            /\ res' = Respond(r, 200, "", TRUE)
       ELSE /\ res' = Respond(r, 500, "Failed to create dev session", TRUE)
            /\ UNCHANGED sessions

\* next() of authMiddleware: the router runs the route's chain in the same turn.
\* POST /logout only starts session.destroy, which calls back later, and the
\* OAuth callback route only starts passport.authenticate.
Dispatch(k, r) ==
    IF r.route = "protected" THEN requireAuth(k, r)
    ELSE IF r.route = "dev-login" THEN devLogin(k, r)
    ELSE IF r.route = "oauth-callback"
    THEN /\ req' = [req EXCEPT ![k] = [r EXCEPT !.pc = "authenticate"]]
         /\ UNCHANGED <<sessions, res>>
    ELSE /\ req' = [req EXCEPT ![k] = [r EXCEPT !.pc = "destroy"]]
         /\ UNCHANGED <<sessions, res>>

\* Lines 40-66 and 75-77: a request arrives with its session. In dev mode the
\* development user is looked up; otherwise the session's userId is looked up,
\* and a session without one goes on unauthenticated.
authMiddleware_start(k, sid, mode, route) ==
    /\ req[k].pc = "idle"
    /\ LET r == [IdleReq EXCEPT !.mode = mode, !.route = route, !.sid = sid,
                                !.userId = sessions[sid],
                                !.passportUser = passport[sid]]
       IN IF mode = "dev"
          THEN /\ req' = [req EXCEPT ![k] = [r EXCEPT !.pc = "devFirst"]]
               /\ UNCHANGED <<sessions, res>>
          ELSE IF sessions[sid] # NoUser
          THEN /\ req' = [req EXCEPT ![k] = [r EXCEPT !.pc = "findById"]]
               /\ UNCHANGED <<sessions, res>>
          ELSE Dispatch(k, r)
    /\ UNCHANGED <<users, passport>>

\* Line 67: the database answers User.query().findById(userId), or fails.
authMiddleware_findById(k, threw) ==
    /\ req[k].pc = "findById"
    /\ req' = [req EXCEPT ![k].pc = "resume", ![k].threw = threw,
                          ![k].found = ~threw /\ req[k].userId \in users]
    /\ UNCHANGED <<users, sessions, res, passport>>

\* Lines 68-82: the await returns (or throws into the catch block);
\* isAuthenticated is set and next() is called.
authMiddleware_resume(k) ==
    /\ req[k].pc = "resume"
    /\ Dispatch(k, [req[k] EXCEPT !.isAuthenticated = req[k].found,
                                  !.user = IF req[k].found THEN req[k].userId ELSE NoUser])
    /\ UNCHANGED <<users, passport>>

\* Lines 45-48 and 60-62: the lookup of the development user returns.
authMiddleware_devFirst(k, threw) ==
    /\ req[k].pc = "devFirst"
    /\ IF threw
       THEN Dispatch(k, [req[k] EXCEPT !.threw = TRUE])
       ELSE IF DevUser \in users
       THEN Dispatch(k, [req[k] EXCEPT !.isAuthenticated = TRUE, !.user = DevUser])
       ELSE /\ req' = [req EXCEPT ![k].pc = "devInsert"]
            /\ UNCHANGED <<sessions, res>>
    /\ UNCHANGED <<users, passport>>

\* UNIQUE(oauth_provider, oauth_id) of the users table: a second row for the
\* development user is refused.
UniqueViolation(u) == u \in users

\* Lines 50-62 and 78-82: the development user is inserted. The insert throws
\* when the database fails or when the row exists by now, and the catch block
\* goes on unauthenticated.
authMiddleware_devInsert(k, threw) ==
    /\ req[k].pc = "devInsert"
    /\ IF threw \/ UniqueViolation(DevUser)
       THEN /\ Dispatch(k, [req[k] EXCEPT !.threw = TRUE,
                                         !.conflict = ~threw /\ UniqueViolation(DevUser)])
            /\ UNCHANGED users
       ELSE /\ users' = users \cup {DevUser}
            /\ Dispatch(k, [req[k] EXCEPT !.isAuthenticated = TRUE, !.user = DevUser])
    /\ UNCHANGED passport

\* auth.ts lines 54-60: session.destroy calls back, with or without an error.
\* A destroyed session has lost all it carried.
logout_destroy(k, err) ==
    /\ req[k].pc = "destroy"
    /\ req' = [req EXCEPT ![k] = IdleReq]
    /\ IF err
       THEN /\ res' = Respond(req[k], 500, "Failed to logout", TRUE)
            /\ UNCHANGED <<sessions, passport>>
       ELSE /\ sessions' = [sessions EXCEPT ![req[k].sid] = NoUser]
            /\ passport' = [passport EXCEPT ![req[k].sid] = NoUser]
            /\ res' = Respond(req[k], 200, "", TRUE)
    /\ UNCHANGED users

\* auth.ts lines 66-72 and passport.ts lines 10-12, 33-50: the provider has
\* answered. When the login succeeded the user's row exists (findOrCreateUser
\* inserts it if need be), serializeUser stores its id in the session under
\* passport.user, and the handler redirects to the front end; otherwise
\* passport redirects to /login.
oauth_authenticate(k, ok) ==
    /\ req[k].pc = "authenticate"
    /\ req' = [req EXCEPT ![k] = IdleReq]
    /\ IF ok
       THEN /\ users' = users \cup {OAuthUser}
            /\ passport' = [passport EXCEPT ![req[k].sid] = OAuthUser]
            /\ res' = Respond(req[k], 302, "", TRUE)
       ELSE /\ res' = Respond(req[k], 302, "/login", FALSE)
            /\ UNCHANGED <<users, passport>>
    /\ UNCHANGED sessions

\* A row of the users table is deleted.
deleteUser(u) ==
    /\ u \in users
    /\ users' = users \ {u}
    /\ UNCHANGED <<sessions, req, res, passport>>

\* ------------------------------------------- POST .../:uploadId/finalize

\* Router lines 654-666: the repository lookup (read-only), then assembleChunks.
finalize_start(s, repoId, uploadId) ==
    /\ FreeSlot(s)
    /\ IF repoId \notin repositories
       THEN /\ event' = [NoEvent EXCEPT !.op = "finalize", !.kind = "response",
                                        !.error = "Repository not found", !.status = 404]
            /\ UNCHANGED <<calls, progressObj>>
       ELSE AssembleBegin(s, uploadId, "finalize")
    /\ UNCHANGED <<uploadProgress, nextId, tempDirs, chunkFiles, repositories,
                   uploadedFiles, declaredChunks, assembledIds>>

\* ------------------------------------------------------- GitCommand.execute

\* Options a caller passes (maxBuffer in characters; the default is 10MB).
Timeouts == {100, 30000}
MaxBuffers == {2, 4}
SpawnErrors == {"spawn git ENOENT", "spawn git EACCES"}
ExitCodes == {0, 1, 128}
\* Chunks a stream delivers, each a Buffer (a sequence of bytes). "C3" "A9" is
\* the two-byte UTF-8 encoding of one character; the other bytes are ASCII.
DataChunks == {<<"a">>, <<" ">>, <<"b", "\n">>, <<"C3">>, <<"A9">>}
Whitespace == {" ", "\n", "\t"}

\* Buffer.prototype.toString(): UTF-8 decoding of one Buffer. A lead byte with
\* its continuation byte is one character; a lead byte or a continuation byte
\* on its own decodes to U+FFFD.
RECURSIVE toString(_)
toString(data) ==
    IF data = <<>> THEN <<>>
    ELSE IF Head(data) = "C3" /\ Len(data) > 1 /\ data[2] = "A9"
         THEN <<"U+00E9">> \o toString(SubSeq(data, 3, Len(data)))
    ELSE IF Head(data) \in {"C3", "A9"}
         THEN <<"U+FFFD">> \o toString(Tail(data))
    ELSE <<Head(data)>> \o toString(Tail(data))

\* String.prototype.trim
RECURSIVE TrimStart(_)
TrimStart(str) ==
    IF str # <<>> /\ Head(str) \in Whitespace THEN TrimStart(Tail(str)) ELSE str

RECURSIVE TrimEnd(_)
TrimEnd(str) ==
    IF str # <<>> /\ str[Len(str)] \in Whitespace
    THEN TrimEnd(SubSeq(str, 1, Len(str) - 1)) ELSE str

Trim(str) == TrimEnd(TrimStart(str))

\* The code of a 'close' event of a child that was ended by a signal: null.
NullCode == -1

Pending == [state |-> "pending", code |-> "", message |-> <<>>, stdout |-> <<>>,
            stderr |-> <<>>, exitCode |-> 0]

\* new GitError(message, code)
Rejected(message, code) ==
    [Pending EXCEPT !.state = "rejected", !.code = code, !.message = message]

Resolved(out, err, exitCode) ==
    [Pending EXCEPT !.state = "resolved", !.stdout = out, !.stderr = err,
                    !.exitCode = exitCode]

\* resolve / reject: only the first settlement of a promise counts.
Settle(p, outcome) == IF p.state = "pending" THEN outcome ELSE p

InitExec ==
    /\ proc = "idle"
    /\ opts = [timeout |-> 30000, maxBuffer |-> 4]
    /\ sysError = ""
    /\ signal = "none"
    /\ stdout = <<>>
    /\ stderr = <<>>
    /\ stdoutSize = 0
    /\ stderrSize = 0
    /\ promise = Pending
    /\ emitted = [stdout |-> <<>>, stderr |-> <<>>]
    /\ closeCode = NullCode

\* ------------------------------------- GitCommand facade: subprocess results

\* Texts are sequences of phrases; String.prototype.includes looks for a phrase.
TextIncludes(text, phrase) == \E i \in 1..Len(text) : text[i] = phrase

\* Branch names are strings of characters.
main == <<"m", "a", "i", "n">>
MAIN == <<"M", "A", "I", "N">>
master == <<"m", "a", "s", "t", "e", "r">>
dev == <<"d", "e", "v">>
Branches == {main, dev}

LowerLetters == <<"a", "b", "c", "d", "e", "f", "g", "h", "i", "j", "k", "l", "m",
                  "n", "o", "p", "q", "r", "s", "t", "u", "v", "w", "x", "y", "z">>
UpperLetters == <<"A", "B", "C", "D", "E", "F", "G", "H", "I", "J", "K", "L", "M",
                  "N", "O", "P", "Q", "R", "S", "T", "U", "V", "W", "X", "Y", "Z">>
Digits == {"0", "1", "2", "3", "4", "5", "6", "7", "8", "9"}
Letters == {LowerLetters[i] : i \in 1..26} \cup {UpperLetters[i] : i \in 1..26}

\* String.prototype.toUpperCase / toLowerCase
UpperChar(c) ==
    IF \E i \in 1..26 : LowerLetters[i] = c
    THEN UpperLetters[CHOOSE i \in 1..26 : LowerLetters[i] = c] ELSE c
LowerChar(c) ==
    IF \E i \in 1..26 : UpperLetters[i] = c
    THEN LowerLetters[CHOOSE i \in 1..26 : UpperLetters[i] = c] ELSE c
ToUpperCase(name) == [i \in 1..Len(name) |-> UpperChar(name[i])]
ToLowerCase(name) == [i \in 1..Len(name) |-> LowerChar(name[i])]

\* String.prototype.includes for a one- or two-character needle.
HasChar(name, c) == \E i \in 1..Len(name) : name[i] = c
HasPair(name, c1, c2) == \E i \in 1..(Len(name) - 1) : name[i] = c1 /\ name[i + 1] = c2

\* /^[a-zA-Z0-9/_-]+$/.test(name)
MatchesNameRegex(name) ==
    /\ Len(name) > 0
    /\ \A i \in 1..Len(name) : name[i] \in Letters \cup Digits \cup {"/", "_", "-"}

Reserved == {<<"H", "E", "A", "D">>,
             <<"F", "E", "T", "C", "H", "_", "H", "E", "A", "D">>,
             <<"O", "R", "I", "G", "_", "H", "E", "A", "D">>}

\* Variant of isValidBranchName without the check for an empty path component.
isValidBranchName_allowsDoubleSlash(name) ==
    IF Len(name) = 0 THEN FALSE
    ELSE IF name[1] = "-" \/ name[Len(name)] = "/" THEN FALSE
    ELSE IF HasPair(name, ".", ".") THEN FALSE
    ELSE IF HasChar(name, " ") \/ HasChar(name, "~") \/ HasChar(name, "^")
            \/ HasChar(name, ":") THEN FALSE
    ELSE IF HasChar(name, "?") \/ HasChar(name, "*") \/ HasChar(name, "[") THEN FALSE
    ELSE IF ToUpperCase(name) \in Reserved THEN FALSE
    ELSE MatchesNameRegex(name)

\* BranchService.isValidBranchName
isValidBranchName(name) ==
    IF Len(name) = 0 THEN FALSE
    ELSE IF name[1] = "-" \/ name[Len(name)] = "/" THEN FALSE
    ELSE IF HasPair(name, ".", ".") \/ HasPair(name, "/", "/") THEN FALSE
    ELSE IF HasChar(name, " ") \/ HasChar(name, "~") \/ HasChar(name, "^")
            \/ HasChar(name, ":") THEN FALSE
    ELSE IF HasChar(name, "?") \/ HasChar(name, "*") \/ HasChar(name, "[") THEN FALSE
    ELSE IF ToUpperCase(name) \in Reserved THEN FALSE
    ELSE MatchesNameRegex(name)

\* What execute gives back for one call: a CommandResult, or a rejection
\* (SPAWN_ERROR or BUFFER_EXCEEDED) when rejected is TRUE.
Succeeded(out) == [rejected |-> FALSE, exitCode |-> 0, stdout |-> out, stderr |-> <<>>]
Failed(code, out, err) == [rejected |-> FALSE, exitCode |-> code, stdout |-> out, stderr |-> err]
Thrown == [rejected |-> TRUE, exitCode |-> 0, stdout |-> <<>>, stderr |-> <<>>]

\* Results of a git subprocess in general: success, failure with a message on
\* stderr, or no result at all.
GitResults == {Succeeded(<<>>), Failed(1, <<>>, <<"fatal">>), Thrown}

\* git rev-parse --abbrev-ref HEAD prints the checked-out branch; in a repository
\* without commits it fails with exit code 128.
RevParseResults(head) ==
    {Succeeded(<<head>>), Failed(128, <<>>, <<"fatal", "unknown revision">>), Thrown}

\* git commit with nothing staged exits 1 and reports it on stdout; the variant
\* that reports on stderr is what uploadFile's catch block looks for.
CommitResults ==
    GitResults \cup {Failed(1, <<"On branch main", "nothing to commit">>, <<>>),
                     Failed(1, <<>>, <<"nothing to commit">>)}

\* git lfs track lists the tracked patterns, one per line.
LfsTrackResults == GitResults \cup {Succeeded(<<"*.bin">>)}

\* git rev-list --count prints a number.
RevListResults == {Succeeded(<<"2">>), Failed(128, <<>>, <<"fatal", "unknown revision">>), Thrown}

\* git branch --format=%(refname:short) prints the branch names.
BranchListResults == GitResults \cup {Succeeded(<<main, dev>>)}

\* A run of an operation: the subprocess calls made so far, each with its
\* result, the error thrown (code "" while none) and the value returned.
NoError == [code |-> "", message |-> <<>>]
NewRun == [calls |-> <<>>, error |-> NoError, value |-> <<>>]

GitError(message, code) == [code |-> code, message |-> message]
Throw(run, error) == [run EXCEPT !.error = error]
Return(run, value) == [run EXCEPT !.value = value]

\* await this.execute(args, options): the call is issued, and a rejection of
\* execute propagates to the caller.
Execute(run, args, r) ==
    LET issued == [run EXCEPT !.calls = Append(@, [args |-> args, result |-> r])]
    IN IF r.rejected
       THEN Throw(issued, GitError(<<"Failed to execute git command">>, "SPAWN_ERROR"))
       ELSE issued

\* The facade operations that run one command and throw if it exits non-zero:
\* init, clone, add, commit, push, pull, listBranches, lfsInstall, lfsTrack.
RunOrThrow(run, args, r, failure, code, value) ==
    LET ran == Execute(run, args, r) IN
    IF ran.error # NoError THEN ran
    ELSE IF r.exitCode # 0 THEN Throw(ran, GitError(<<failure>> \o r.stderr, code))
    ELSE Return(ran, value)

GitCommand_init(run, r) ==
    RunOrThrow(run, <<"init">>, r, "Failed to initialize repository: ", "INIT_FAILED", <<>>)

GitCommand_clone(run, r) ==
    RunOrThrow(run, <<"clone">>, r, "Failed to clone repository: ", "CLONE_FAILED", <<>>)

GitCommand_add(run, files, r) ==
    RunOrThrow(run, <<"add", files>>, r, "Failed to add files: ", "ADD_FAILED", <<>>)

GitCommand_commit(run, r) ==
    RunOrThrow(run, <<"commit">>, r, "Failed to commit: ", "COMMIT_FAILED", r.stdout)

GitCommand_push(run, r) ==
    RunOrThrow(run, <<"push">>, r, "Failed to push: ", "PUSH_FAILED", <<>>)

GitCommand_pull(run, r) ==
    RunOrThrow(run, <<"pull">>, r, "Failed to pull: ", "PULL_FAILED", <<>>)

GitCommand_listBranches(run, r) ==
    RunOrThrow(run, <<"branch", "--format">>, r, "Failed to list branches: ",
               "LIST_BRANCHES_FAILED", r.stdout)

GitCommand_lfsInstall(run, r) ==
    RunOrThrow(run, <<"lfs", "install">>, r, "Failed to install Git LFS: ",
               "LFS_INSTALL_FAILED", <<>>)

GitCommand_lfsTrack(run, pattern, r) ==
    RunOrThrow(run, <<"lfs", "track", pattern>>, r, "Failed to track pattern with LFS: ",
               "LFS_TRACK_FAILED", <<>>)

\* getCurrentBranch: result.exitCode === 0 ? result.stdout : null
NoBranch == <<>>
GitCommand_getCurrentBranch(run, r) ==
    LET ran == Execute(run, <<"rev-parse", "--abbrev-ref", "HEAD">>, r) IN
    IF ran.error # NoError THEN ran
    ELSE Return(ran, IF r.exitCode = 0 THEN r.stdout ELSE NoBranch)

\* isLfsInstalled: try { exitCode === 0 } catch { false }
GitCommand_isLfsInstalled(run, r) ==
    LET ran == Execute(run, <<"lfs", "version">>, r) IN
    IF ran.error # NoError THEN Return(Throw(ran, NoError), <<"false">>)
    ELSE Return(ran, IF r.exitCode = 0 THEN <<"true">> ELSE <<"false">>)

\* lfsTrackedPatterns: [] if the command fails, else the patterns of its output.
GitCommand_lfsTrackedPatterns(run, r) ==
    LET ran == Execute(run, <<"lfs", "track">>, r) IN
    IF ran.error # NoError THEN ran
    ELSE Return(ran, IF r.exitCode # 0 THEN <<>> ELSE r.stdout)

\* ------------------------------------------------------------ BranchService

\* new Error(message): an error without a GitError code.
Error(message) == [code |-> "Error", message |-> <<message>>]

\* The for loop of listBranches: one `git log -1` per branch, inside try/catch.
RECURSIVE LogEach(_, _, _)
LogEach(run, branches, rs) ==
    IF branches = <<>> THEN run
    ELSE LET ran == Execute(run, <<"log", "-1", Head(branches)>>, Head(rs))
         IN LogEach(Throw(ran, NoError), Tail(branches), Tail(rs))

BranchService_listBranches(rCurrent, rList, rsLog) ==
    LET current == GitCommand_getCurrentBranch(NewRun, rCurrent) IN
    IF current.error # NoError THEN current
    ELSE LET listed == GitCommand_listBranches(current, rList) IN
         IF listed.error # NoError THEN listed
         ELSE Return(LogEach(listed, listed.value, rsLog), listed.value)

BranchService_createBranch(branchName, r) ==
    IF ~isValidBranchName(branchName) THEN Throw(NewRun, Error("Invalid branch name"))
    ELSE LET ran == Execute(NewRun, <<"checkout", "-b", branchName>>, r) IN
         IF ran.error # NoError THEN ran
         ELSE IF r.exitCode # 0
              THEN IF TextIncludes(r.stderr, "already exists")
                   THEN Throw(ran, Error("Branch already exists"))
                   ELSE Throw(ran, GitError(<<"Failed to create branch: ">> \o r.stderr,
                                            "CREATE_BRANCH_FAILED"))
         ELSE ran

BranchService_switchBranch(branchName, r) ==
    LET ran == Execute(NewRun, <<"checkout", branchName>>, r) IN
    IF ran.error # NoError THEN ran
    ELSE IF r.exitCode # 0
         THEN IF TextIncludes(r.stderr, "did not match any file")
              THEN Throw(ran, Error("Branch not found"))
              ELSE IF TextIncludes(r.stderr, "Your local changes")
              THEN Throw(ran, Error("Cannot switch branch: You have uncommitted changes"))
              ELSE Throw(ran, GitError(<<"Failed to switch branch: ">> \o r.stderr,
                                       "SWITCH_BRANCH_FAILED"))
    ELSE ran

BranchService_deleteBranch(branchName, force, rCurrent, r) ==
    LET current == GitCommand_getCurrentBranch(NewRun, rCurrent) IN
    IF current.error # NoError THEN current
    ELSE IF current.value = <<branchName>>
         THEN Throw(current, Error("Cannot delete the current branch"))
    ELSE IF ToLowerCase(branchName) \in {main, master}
         THEN Throw(current, Error("Cannot delete the main branch"))
    ELSE LET ran == Execute(current,
                            <<"branch", IF force THEN "-D" ELSE "-d", branchName>>, r) IN
         IF ran.error # NoError THEN ran
         ELSE IF r.exitCode # 0
              THEN IF TextIncludes(r.stderr, "not found")
                   THEN Throw(ran, Error("Branch not found"))
                   ELSE IF TextIncludes(r.stderr, "not fully merged")
                   THEN Throw(ran, Error("Branch has unmerged changes. Use force delete to override."))
                   ELSE Throw(ran, GitError(<<"Failed to delete branch: ">> \o r.stderr,
                                            "DELETE_BRANCH_FAILED"))
         ELSE Return(ran, <<>>)

BranchService_mergeBranch(sourceBranch, rCurrent, r) ==
    LET current == GitCommand_getCurrentBranch(NewRun, rCurrent) IN
    IF current.error # NoError THEN current
    ELSE IF current.value = NoBranch
         THEN Throw(current, Error("Could not determine current branch"))
    ELSE LET ran == Execute(current, <<"merge", sourceBranch>>, r) IN
         IF ran.error # NoError THEN ran
         ELSE IF r.exitCode # 0
              THEN IF TextIncludes(r.stderr, "CONFLICT")
                   THEN Throw(ran, Error("Merge conflict detected. Manual resolution required."))
                   ELSE IF TextIncludes(r.stderr, "not something we can merge")
                   THEN Throw(ran, Error("Source branch not found"))
                   ELSE Throw(ran, GitError(<<"Failed to merge branch: ">> \o r.stderr,
                                            "MERGE_FAILED"))
         ELSE Return(ran, <<>>)

\* parseInt(stdout) || 0 on the outputs of rev-list --count.
ParseCount(out) == IF out = <<"2">> THEN "2" ELSE "0"

BranchService_compareBranches(rAhead, rBehind) ==
    LET ahead == Execute(NewRun, <<"rev-list", "--count", "branch2..branch1">>, rAhead) IN
    IF ahead.error # NoError THEN ahead
    ELSE LET behind == Execute(ahead, <<"rev-list", "--count", "branch1..branch2">>, rBehind) IN
         IF behind.error # NoError THEN behind
         ELSE Return(behind, <<ParseCount(rAhead.stdout), ParseCount(rBehind.stdout)>>)

\* ----------------------------------------------------- FileOperationsService

\* parseInt(process.env.LFS_THRESHOLD || '50') * 1024 * 1024
LFS_THRESHOLD == 52428800

Files == {"demo.bin", "README"}
FileSizes == {1, LFS_THRESHOLD + 1}

\* path.extname(filePath).toLowerCase(), and the pattern `*${ext}`
ExtName(filePath) == IF filePath = "demo.bin" THEN ".bin" ELSE ""
PatternOf(ext) == IF ext = ".bin" THEN "*.bin" ELSE "*"

\* matchesPattern(fileName, pattern): fileName.endsWith(pattern.substring(1))
matchesPattern(fileName, pattern) ==
    IF pattern = "*.bin" THEN ExtName(fileName) = ".bin" ELSE fileName = pattern

\* shouldUseLfs: value <<"true">> or <<"false">>
shouldUseLfs(run, fileSize, filePath, rVersion, rTracked) ==
    LET installed == GitCommand_isLfsInstalled(run, rVersion) IN
    IF installed.value = <<"false">> THEN installed
    ELSE IF fileSize > LFS_THRESHOLD THEN Return(installed, <<"true">>)
    ELSE LET tracked == GitCommand_lfsTrackedPatterns(installed, rTracked) IN
         IF tracked.error # NoError THEN tracked
         ELSE Return(tracked,
                     IF \E i \in 1..Len(tracked.value) :
                            matchesPattern(filePath, tracked.value[i])
                     THEN <<"true">> ELSE <<"false">>)

ensureLfsTracking(run, pattern, rTracked, rTrack, rAdd) ==
    LET tracked == GitCommand_lfsTrackedPatterns(run, rTracked) IN
    IF tracked.error # NoError THEN tracked
    ELSE IF TextIncludes(tracked.value, pattern) THEN tracked
    ELSE LET added == GitCommand_lfsTrack(tracked, pattern, rTrack) IN
         IF added.error # NoError THEN added
         ELSE GitCommand_add(added, ".gitattributes", rAdd)

\* Lines 632-648 of uploadFile: add, then commit inside try/catch; the catch
\* swallows an error whose message includes 'nothing to commit'.
AddAndCommit(run, filePath, rAdd, rCommit) ==
    LET added == GitCommand_add(run, filePath, rAdd) IN
    IF added.error # NoError THEN added
    ELSE LET committed == GitCommand_commit(added, rCommit) IN
         IF committed.error # NoError
            /\ TextIncludes(committed.error.message, "nothing to commit")
         THEN Return(Throw(committed, NoError), <<>>)
         ELSE committed

FileOperationsService_uploadFile(filePath, fileSize, rVersion, rTracked, rTracked2, rTrack, rAddAttr, rAdd, rCommit) ==
    LET use == shouldUseLfs(NewRun, fileSize, filePath, rVersion, rTracked) IN
    IF use.error # NoError THEN use
    ELSE LET ensured ==
                IF use.value = <<"true">> /\ ExtName(filePath) # ""
                THEN ensureLfsTracking(use, PatternOf(ExtName(filePath)),
                                       rTracked2, rTrack, rAddAttr)
                ELSE use
         IN IF ensured.error # NoError THEN ensured
            ELSE AddAndCommit(ensured, filePath, rAdd, rCommit)

\* deleteFile: fs.access, then `git rm -r` (its result is not looked at), then
\* commit.
FileOperationsService_deleteFile(filePath, exists, rRm, rCommit) ==
    IF ~exists THEN Throw(NewRun, Error("File or folder not found"))
    ELSE LET removed == Execute(NewRun, <<"rm", "-r", filePath>>, rRm) IN
         IF removed.error # NoError THEN removed
         ELSE GitCommand_commit(removed, rCommit)

\* moveFile: fs.access, fs.mkdir, then `git mv` (its result is not looked at),
\* then commit.
FileOperationsService_moveFile(sourcePath, destinationPath, exists, rMv, rCommit) ==
    IF ~exists THEN Throw(NewRun, Error("Source file or folder not found"))
    ELSE LET moved == Execute(NewRun, <<"mv", sourcePath, destinationPath>>, rMv) IN
         IF moved.error # NoError THEN moved
         ELSE GitCommand_commit(moved, rCommit)

NoOp == [name |-> "none", branchName |-> <<>>, force |-> FALSE, head |-> <<>>]

InitGit ==
    /\ gitOp = NoOp
    /\ gitRun = NewRun

\* -------------------------------------------------------- RepositoryService

\* Users that call the service, and the names they pass: valid ones, one with
\* a character outside the pattern, and the empty one.
Owners == {1, 2}
RepoNames == {<<"a">>, <<"Z", "-">>, <<"a", "/">>, <<>>}
RepoSlots == 1..MaxRequests
MAX_REPO_NAME == 100

IdleRepoCall == [op |-> "idle", pc |-> "idle", user |-> 0, name |-> <<>>, id |-> 0,
                 path |-> <<>>]
NoRepoRet == [op |-> "none", user |-> 0, name |-> <<>>, id |-> 0, threw |-> FALSE,
              error |-> "", row |-> 0, rows |-> {}]

InitRepo ==
    /\ repoRows = {}
    /\ workTrees = {}
    /\ repoCalls = [k \in RepoSlots |-> IdleRepoCall]
    /\ repoRet = NoRepoRet
    /\ deletedIds = {}

\* RepositoryService.isValidRepositoryName
isValidRepositoryName(name) ==
    /\ \A i \in 1..Len(name) : name[i] \in Letters \cup Digits \cup {"_", "-"}
    /\ Len(name) > 0
    /\ Len(name) <= MAX_REPO_NAME

\* RepositoryService.getRepositoryPath, below reposBasePath.
getRepositoryPath(userId, repoName) == <<userId, repoName>>

\* Repository.query().findById(repositoryId).where('owner_id', userId): the
\* id of the row, or 0 for undefined.
FindRepo(repositoryId, userId) ==
    IF \E r \in repoRows : r.id = repositoryId /\ r.owner_id = userId
    THEN repositoryId ELSE 0

RepoRow(id) == CHOOSE r \in repoRows : r.id = id

\* The call in slot k ends: it returns, or throws error.
RepoReturn(k, threw, error, row, rows) ==
    /\ repoRet' = [op |-> repoCalls[k].op, user |-> repoCalls[k].user,
                   name |-> repoCalls[k].name, id |-> repoCalls[k].id,
                   threw |-> threw, error |-> error, row |-> row, rows |-> rows]
    /\ repoCalls' = [repoCalls EXCEPT ![k] = IdleRepoCall]

\* Calls of createRepository that have not yet inserted their row.
Creating == {k \in RepoSlots : repoCalls[k].op = "createRepository"}

\* Lines 33-42: the name is validated and the lookup of an existing row of the
\* owner with this name is sent.
createRepository_start(k, user, name) ==
    /\ repoCalls[k].pc = "idle"
    /\ Cardinality(repoRows) + Cardinality(Creating) < MaxRepos
    /\ LET c == [IdleRepoCall EXCEPT !.op = "createRepository", !.user = user,
                                     !.name = name]
       IN IF ~isValidRepositoryName(name)
          THEN /\ repoRet' = [NoRepoRet EXCEPT !.op = "createRepository", !.user = user,
                                               !.name = name, !.threw = TRUE,
                                               !.error = "Invalid repository name"]
               /\ UNCHANGED repoCalls
          ELSE /\ repoCalls' = [repoCalls EXCEPT ![k] = [c EXCEPT !.pc = "existing"]]
               /\ UNCHANGED repoRet
    /\ UNCHANGED <<repoRows, workTrees, deletedIds>>

\* Lines 39-49: the lookup returns; an existing row ends the call.
createRepository_existing(k) ==
    /\ repoCalls[k].pc = "existing"
    /\ LET c == repoCalls[k]
       IN IF \E r \in repoRows : r.owner_id = c.user /\ r.name = c.name
          THEN RepoReturn(k, TRUE, "Repository with this name already exists", 0, {})
          ELSE /\ repoCalls' = [repoCalls EXCEPT
                                    ![k].pc = "init",
                                    ![k].path = getRepositoryPath(c.user, c.name)]
               /\ UNCHANGED repoRet
    /\ UNCHANGED <<repoRows, workTrees, deletedIds>>

\* Lines 51-69: git init (or clone), LFS set-up and the initial commit run in
\* the new working tree; any of them may fail, after the directory was made.
createRepository_init(k, ok) ==
    /\ repoCalls[k].pc = "init"
    /\ workTrees' = workTrees \cup {repoCalls[k].path}
    /\ IF ok
       THEN /\ repoCalls' = [repoCalls EXCEPT ![k].pc = "insert"]
            /\ UNCHANGED repoRet
       ELSE RepoReturn(k, TRUE, "GitError", 0, {})
    /\ UNCHANGED <<repoRows, deletedIds>>

\* Lines 71-83: the row is inserted under the next id and returned.
createRepository_insert(k) ==
    /\ repoCalls[k].pc = "insert"
    /\ LET c == repoCalls[k]
           id == Cardinality(repoRows) + 1
       IN /\ repoRows' = repoRows \cup {[id |-> id, name |-> c.name, local_path |-> c.path,
                                         owner_id |-> c.user, is_active |-> TRUE]}
          /\ RepoReturn(k, FALSE, "", id, {})
    /\ UNCHANGED <<workTrees, deletedIds>>

\* getRepository (lines 197-203), called by a route handler.
getRepository(k, repositoryId, userId) ==
    /\ repoCalls[k].pc = "idle"
    /\ repoRet' = [NoRepoRet EXCEPT !.op = "getRepository", !.user = userId,
                                    !.id = repositoryId,
                                    !.row = FindRepo(repositoryId, userId)]
    /\ UNCHANGED <<repoRows, workTrees, repoCalls, deletedIds>>

\* listUserRepositories (lines 208-213).
listUserRepositories(k, userId) ==
    /\ repoCalls[k].pc = "idle"
    /\ repoRet' = [NoRepoRet EXCEPT
                       !.op = "listUserRepositories", !.user = userId,
                       !.rows = {r.id : r \in {x \in repoRows :
                                                 x.owner_id = userId /\ x.is_active}}]
    /\ UNCHANGED <<repoRows, workTrees, repoCalls, deletedIds>>

\* Line 219: deleteRepository sends its getRepository lookup.
deleteRepository_start(k, repositoryId, userId) ==
    /\ repoCalls[k].pc = "idle"
    /\ repoCalls' = [repoCalls EXCEPT ![k] = [IdleRepoCall EXCEPT
                         !.op = "deleteRepository", !.pc = "get", !.user = userId,
                         !.id = repositoryId]]
    /\ UNCHANGED <<repoRows, workTrees, repoRet, deletedIds>>

\* Lines 219-226: the lookup returns; without a row the call throws, with one
\* the patch is sent.
deleteRepository_get(k) ==
    /\ repoCalls[k].pc = "get"
    /\ LET c == repoCalls[k]
       IN IF FindRepo(c.id, c.user) = 0
          THEN RepoReturn(k, TRUE, "Repository not found", 0, {})
          ELSE /\ repoCalls' = [repoCalls EXCEPT
                                    ![k].pc = "patch",
                                    ![k].path = RepoRow(c.id).local_path]
               /\ UNCHANGED repoRet
    /\ UNCHANGED <<repoRows, workTrees, deletedIds>>

\* Line 226: repository.$query().patch({ is_active: false }).
deleteRepository_patch(k) ==
    /\ repoCalls[k].pc = "patch"
    /\ repoRows' = {IF r.id = repoCalls[k].id THEN [r EXCEPT !.is_active = FALSE] ELSE r :
                    r \in repoRows}
    /\ repoCalls' = [repoCalls EXCEPT ![k].pc = "rm"]
    /\ UNCHANGED <<workTrees, repoRet, deletedIds>>

\* Lines 228-235: fs.rm of the working tree; a failure is logged and the call
\* returns normally all the same.
deleteRepository_rm(k, ok) ==
    /\ repoCalls[k].pc = "rm"
    /\ workTrees' = IF ok THEN workTrees \ {repoCalls[k].path} ELSE workTrees
    /\ deletedIds' = deletedIds \cup {repoCalls[k].id}
    /\ RepoReturn(k, FALSE, "", 0, {})
    /\ UNCHANGED repoRows

NoRepoCallInFlight == \A k \in RepoSlots : repoCalls[k].pc = "idle"

\* ------------------------------------------------------ shared-folders router

FolderIds == 1..MaxFolders
FolderSlots == 1..MaxRequests
\* permission_level values a request may carry ('owner' is not one of the
\* three levels); "none" stands for no row of folder_permissions.
Levels == {"viewer", "contributor", "admin"}
RequestedLevels == Levels \cup {"owner"}

IdleFolderCall == [op |-> "idle", pc |-> "idle", user |-> 0, folder |-> 0, target |-> 0,
                   level |-> "none"]
NoFolderRes == [op |-> "none", status |-> 0, error |-> "", folder |-> 0]

InitFolders ==
    /\ folders = {}
    /\ perms = [f \in FolderIds |-> [u \in Owners |-> "none"]]
    /\ folderCalls = [k \in FolderSlots |-> IdleFolderCall]
    /\ folderRes = NoFolderRes

\* res.status(status).json(...) ends the request in slot k.
FolderRespond(k, status, error) ==
    /\ folderRes' = [op |-> folderCalls[k].op, status |-> status, error |-> error,
                     folder |-> folderCalls[k].folder]
    /\ folderCalls' = [folderCalls EXCEPT ![k] = IdleFolderCall]

\* Admin rows of folder f.
Admins(f) == {u \in Owners : perms[f][u] = "admin"}

\* POST / (lines 41-52): the lookup of the repository is sent.
createFolder_start(k, user) ==
    /\ folderCalls[k].pc = "idle"
    /\ Cardinality(folders)
         + Cardinality({j \in FolderSlots : folderCalls[j].pc \in {"findRepo", "insertFolder"}})
         < MaxFolders
    /\ folderCalls' = [folderCalls EXCEPT ![k] =
                          [IdleFolderCall EXCEPT !.op = "create", !.pc = "findRepo",
                                                 !.user = user]]
    /\ UNCHANGED <<folders, perms, folderRes>>

\* Lines 50-56: the repository is the requester's, or the answer is 404.
createFolder_findRepo(k, owned) ==
    /\ folderCalls[k].pc = "findRepo"
    /\ IF owned
       THEN /\ folderCalls' = [folderCalls EXCEPT ![k].pc = "insertFolder"]
            /\ UNCHANGED folderRes
       ELSE FolderRespond(k, 404, "Repository not found")
    /\ UNCHANGED <<folders, perms>>

\* Lines 58-67: the row of shared_folders is inserted.
createFolder_insertFolder(k) ==
    /\ folderCalls[k].pc = "insertFolder"
    /\ LET id == Cardinality(folders) + 1
       IN /\ folders' = folders \cup {id}
          /\ folderCalls' = [folderCalls EXCEPT ![k].pc = "insertPerm", ![k].folder = id]
    /\ UNCHANGED <<perms, folderRes>>

\* Lines 69-84: the creator's admin row is inserted and 201 is answered.
createFolder_insertPerm(k) ==
    /\ folderCalls[k].pc = "insertPerm"
    /\ perms' = [perms EXCEPT ![folderCalls[k].folder][folderCalls[k].user] = "admin"]
    /\ FolderRespond(k, 201, "")
    /\ UNCHANGED folders

\* POST /:id/permissions (lines 218-236): the level is validated and the
\* requester's admin row is looked up.
grant_start(k, user, f, target, level) ==
    /\ folderCalls[k].pc = "idle"
    /\ IF level \notin Levels
       THEN /\ folderRes' = [op |-> "grant", status |-> 400,
                             error |-> "Invalid permission level", folder |-> f]
            /\ UNCHANGED folderCalls
       ELSE /\ folderCalls' = [folderCalls EXCEPT ![k] =
                                  [op |-> "grant", pc |-> "adminCheck", user |-> user,
                                   folder |-> f, target |-> target, level |-> level]]
            /\ UNCHANGED folderRes
    /\ UNCHANGED <<folders, perms>>

\* Lines 232-246 and 275-289: without an admin row the answer is 403; with one
\* the next query is sent.
adminCheck(k, nextPc) ==
    /\ folderCalls[k].pc = "adminCheck"
    /\ IF perms[folderCalls[k].folder][folderCalls[k].user] # "admin"
       THEN FolderRespond(k, 403, "Admin access required")
       ELSE /\ folderCalls' = [folderCalls EXCEPT ![k].pc = nextPc]
            /\ UNCHANGED folderRes
    /\ UNCHANGED <<folders, perms>>

grant_adminCheck(k) == folderCalls[k].op = "grant" /\ adminCheck(k, "existing")

\* Lines 243-259: the target's row is looked up; an existing one will be
\* patched, otherwise one will be inserted.
grant_existing(k) ==
    /\ folderCalls[k].pc = "existing"
    /\ folderCalls' = [folderCalls EXCEPT ![k].pc =
                          IF perms[folderCalls[k].folder][folderCalls[k].target] # "none"
                          THEN "patch" ELSE "insert"]
    /\ UNCHANGED <<folders, perms, folderRes>>

\* Lines 250 and 261: existing.$query().patch({ permission_level }) changes the
\* row if it is still there.
grant_patch(k) ==
    /\ folderCalls[k].pc = "patch"
    /\ LET c == folderCalls[k]
       IN perms' = IF perms[c.folder][c.target] # "none"
                   THEN [perms EXCEPT ![c.folder][c.target] = c.level] ELSE perms
    /\ FolderRespond(k, 200, "")
    /\ UNCHANGED folders

\* Lines 253-264: the row is inserted; UNIQUE(shared_folder_id, user_id)
\* refuses it when the user has a row by now, and the catch block answers 500.
grant_insert(k) ==
    /\ folderCalls[k].pc = "insert"
    /\ LET c == folderCalls[k]
       IN IF perms[c.folder][c.target] # "none"
          THEN /\ FolderRespond(k, 500, "Failed to grant permission")
               /\ UNCHANGED perms
          ELSE /\ perms' = [perms EXCEPT ![c.folder][c.target] = c.level]
               /\ FolderRespond(k, 200, "")
    /\ UNCHANGED folders

\* DELETE /:id/permissions/:userId (lines 269-279).
revoke_start(k, user, f, target) ==
    /\ folderCalls[k].pc = "idle"
    /\ folderCalls' = [folderCalls EXCEPT ![k] =
                          [IdleFolderCall EXCEPT !.op = "revoke", !.pc = "adminCheck",
                                                 !.user = user, !.folder = f,
                                                 !.target = target]]
    /\ UNCHANGED <<folders, perms, folderRes>>

revoke_adminCheck(k) == folderCalls[k].op = "revoke" /\ adminCheck(k, "count")

\* Lines 286-295: the admin rows are counted; only when there is exactly one
\* is the target's row looked up.
revoke_count(k) ==
    /\ folderCalls[k].pc = "count"
    /\ folderCalls' = [folderCalls EXCEPT ![k].pc =
                          IF Cardinality(Admins(folderCalls[k].folder)) = 1
                          THEN "target" ELSE "delete"]
    /\ UNCHANGED <<folders, perms, folderRes>>

\* Lines 292-305: the last admin is not removed.
revoke_target(k) ==
    /\ folderCalls[k].pc = "target"
    /\ IF perms[folderCalls[k].folder][folderCalls[k].target] = "admin"
       THEN FolderRespond(k, 400, "Cannot remove last admin")
       ELSE /\ folderCalls' = [folderCalls EXCEPT ![k].pc = "delete"]
            /\ UNCHANGED folderRes
    /\ UNCHANGED <<folders, perms>>

\* Lines 302-307: the target's row is deleted.
revoke_delete(k) ==
    /\ folderCalls[k].pc = "delete"
    /\ perms' = [perms EXCEPT ![folderCalls[k].folder][folderCalls[k].target] = "none"]
    /\ FolderRespond(k, 200, "")
    /\ UNCHANGED folders

\* ------------------------------------- FileOperationsService: filesystem paths

\* A path is the sequence of its segments. Segments a client may send, and the
\* paths made of them.
PathSegs == {"..", "docs", "a.txt"}
ClientPaths == UNION {[1..n -> PathSegs] : n \in 0..MaxPathLen}
\* repository.local_path, as getRepositoryPath builds it below reposBasePath.
LocalPath == <<"repos", "1", "project">>

\* path.normalize of an absolute path: '.' is dropped and '..' removes the
\* segment before it, if there is one.
RECURSIVE Normalize(_, _)
Normalize(done, rest) ==
    IF rest = <<>> THEN done
    ELSE IF Head(rest) = "." THEN Normalize(done, Tail(rest))
    ELSE IF Head(rest) = ".."
    THEN Normalize(IF done = <<>> THEN done ELSE SubSeq(done, 1, Len(done) - 1), Tail(rest))
    ELSE Normalize(Append(done, Head(rest)), Tail(rest))

\* path.join(a, b)
PathJoin(a, b) == Normalize(<<>>, a \o b)

\* path.dirname of an absolute path.
Dirname(p) == IF p = <<>> THEN p ELSE SubSeq(p, 1, Len(p) - 1)

\* path p is the directory dir or lies below it.
Inside(p, dir) == Len(p) >= Len(dir) /\ SubSeq(p, 1, Len(dir)) = dir

NoFileOp == [op |-> "none", read |-> {}, written |-> {}]

InitFiles == fileOp = NoFileOp

\* listFiles: fs.readdir(absolutePath).
listFiles(folderPath) ==
    fileOp' = [op |-> "listFiles", read |-> {PathJoin(LocalPath, folderPath)},
               written |-> {}]

\* uploadFile: fs.mkdir(directory, { recursive: true }), then the write stream
\* on absolutePath.
uploadFile_write(filePath) ==
    LET absolutePath == PathJoin(LocalPath, filePath)
    IN fileOp' = [op |-> "uploadFile", read |-> {},
                  written |-> {Dirname(absolutePath), absolutePath}]

\* downloadFile: fs.stat and createReadStream on absolutePath.
downloadFile(filePath) ==
    fileOp' = [op |-> "downloadFile", read |-> {PathJoin(LocalPath, filePath)},
               written |-> {}]

\* deleteFile: fs.access(absolutePath); the removal itself is left to git.
deleteFile_access(filePath) ==
    fileOp' = [op |-> "deleteFile", read |-> {PathJoin(LocalPath, filePath)},
               written |-> {}]

\* moveFile: fs.access(absoluteSource), then fs.mkdir(destDir, { recursive:
\* true }); the move itself is left to git.
moveFile_access(sourcePath, destinationPath) ==
    fileOp' = [op |-> "moveFile", read |-> {PathJoin(LocalPath, sourcePath)},
               written |-> {Dirname(PathJoin(LocalPath, destinationPath))}]

\* ---------------------------------------------------------- initial state

Init == InitUpload /\ InitExec /\ InitGit /\ InitTime /\ InitAuth /\ InitRepo /\ InitFolders /\ InitFiles

\* ------------------------------------------- calls of the Git operations

\* One call of an operation, served to its end with the results its
\* subprocesses give: the run it makes is recorded until the caller has it.
Called(name, branchName, force, head, run) ==
    /\ gitOp = NoOp
    /\ gitOp' = [name |-> name, branchName |-> branchName, force |-> force, head |-> head]
    /\ gitRun' = run

\* The caller takes the result or the error.
returned ==
    /\ gitOp # NoOp
    /\ gitOp' = NoOp
    /\ gitRun' = NewRun

\* Lines 209-225: merge the options and spawn('git', args, { cwd, env, timeout }).
\* A spawn that fails with ENOENT or EACCES returns a child that emits 'error'
\* on the next tick.
execute(timeout, maxBuffer, spawnError) ==
    /\ proc = "idle"
    /\ opts' = [timeout |-> timeout, maxBuffer |-> maxBuffer]
    /\ proc' = IF spawnError = "" THEN "running" ELSE "spawnError"
    /\ sysError' = spawnError
    /\ UNCHANGED <<signal, stdout, stderr, stdoutSize, stderrSize, promise, emitted,
                   closeCode>>

\* Lines 227-232: child.stdout.on('data')
stdout_data(data) ==
    /\ proc = "running"
    /\ Len(emitted.stdout) + Len(emitted.stderr) < MaxData
    /\ stdoutSize' = stdoutSize + Len(data)
    /\ stdout' = IF stdoutSize' <= opts.maxBuffer THEN stdout \o toString(data) ELSE stdout
    /\ emitted' = [emitted EXCEPT !.stdout = Append(@, data)]
    /\ UNCHANGED <<proc, opts, sysError, signal, stderr, stderrSize, promise, closeCode>>

\* Lines 234-239: child.stderr.on('data')
stderr_data(data) ==
    /\ proc = "running"
    /\ Len(emitted.stdout) + Len(emitted.stderr) < MaxData
    /\ stderrSize' = stderrSize + Len(data)
    /\ stderr' = IF stderrSize' <= opts.maxBuffer THEN stderr \o toString(data) ELSE stderr
    /\ emitted' = [emitted EXCEPT !.stderr = Append(@, data)]
    /\ UNCHANGED <<proc, opts, sysError, signal, stdout, stdoutSize, promise, closeCode>>

\* Lines 216-220: the timeout is handed to spawn and execute sets no timer of its
\* own. When it elapses before the child has exited, the runtime calls
\* child.kill(killSignal), and killSignal, which execute does not pass, is
\* SIGTERM. No handler of execute runs.
child_timeout ==
    /\ proc = "running"
    /\ signal = "none"
    /\ signal' = "SIGTERM"
    /\ UNCHANGED <<proc, opts, sysError, stdout, stderr, stdoutSize, stderrSize,
                   promise, emitted, closeCode>>

\* Variant whose 'error' handler does not reject.
child_error_noReject ==
    /\ proc = "spawnError"
    /\ proc' = "errored"
    /\ UNCHANGED <<opts, sysError, signal, stdout, stderr, stdoutSize, stderrSize,
                   promise, emitted, closeCode>>

\* Lines 241-244: child.on('error')
child_error ==
    /\ proc = "spawnError"
    /\ proc' = "errored"
    /\ promise' = Settle(promise,
                         Rejected(<<"Failed to execute git command: ", sysError>>,
                                  "SPAWN_ERROR"))
    /\ UNCHANGED <<opts, sysError, signal, stdout, stderr, stdoutSize, stderrSize,
                   emitted, closeCode>>

\* Variant of the 'close' handler without the buffer check of lines 256-259.
child_close_noBufferCheck(code, signalled) ==
    /\ proc \in {"running", "errored"}
    /\ signalled => (proc = "running" /\ signal # "none")
    /\ LET exitCode == IF signalled \/ code = 0 THEN 0 ELSE code IN
       promise' = Settle(promise, Resolved(Trim(stdout), Trim(stderr), exitCode))
    /\ proc' = "closed"
    /\ closeCode' = IF signalled THEN NullCode ELSE code
    /\ UNCHANGED <<opts, sysError, signal, stdout, stderr, stdoutSize, stderrSize,
                   emitted>>

\* Variant of the 'close' handler that treats a non-zero exit code as a failure.
child_close_rejectsNonZero(code, signalled) ==
    /\ proc \in {"running", "errored"}
    /\ signalled => (proc = "running" /\ signal # "none")
    /\ LET exitCode == IF signalled \/ code = 0 THEN 0 ELSE code IN
       promise' = Settle(promise,
            IF stdoutSize > opts.maxBuffer \/ stderrSize > opts.maxBuffer
            THEN Rejected(<<"Git command output exceeded buffer limit", "">>,
                          "BUFFER_EXCEEDED")
            ELSE IF exitCode # 0
            THEN Rejected(<<"Git command failed", "">>, "COMMAND_FAILED")
            ELSE Resolved(Trim(stdout), Trim(stderr), exitCode))
    /\ proc' = "closed"
    /\ closeCode' = IF signalled THEN NullCode ELSE code
    /\ UNCHANGED <<opts, sysError, signal, stdout, stderr, stdoutSize, stderrSize,
                   emitted>>

\* Lines 246-266: child.on('close', code). A child ended by a signal closes with
\* code null; a failed spawn closes, after its 'error', with the negative errno.
child_close(code, signalled) ==
    /\ proc \in {"running", "errored"}
    /\ signalled => (proc = "running" /\ signal # "none")
    /\ LET exitCode == IF signalled \/ code = 0 THEN 0 ELSE code IN  \* code || 0
       promise' = Settle(promise,
            IF stdoutSize > opts.maxBuffer \/ stderrSize > opts.maxBuffer
            THEN Rejected(<<"Git command output exceeded buffer limit", "">>,
                          "BUFFER_EXCEEDED")
            ELSE Resolved(Trim(stdout), Trim(stderr), exitCode))
    /\ proc' = "closed"
    /\ closeCode' = IF signalled THEN NullCode ELSE code
    /\ UNCHANGED <<opts, sysError, signal, stdout, stderr, stdoutSize, stderrSize,
                   emitted>>

\* ------------------------------------------------------------ specifications

NoCallInFlight == \A s \in Slots : calls[s].op = "idle"

\* The upload tracker and the chunk-upload handlers, each request served to its
\* end before the next one arrives.
Next ==
    \/ \E f \in Filenames, ts \in TotalSizes, tc \in TotalChunkCounts :
            NoCallInFlight /\ initializeChunkedUpload(f, ts, tc) /\ UNCHANGED notUploadVars
    \/ \E s \in Slots, id \in RequestIds, n \in ChunkNumbers, d \in ChunkData :
            NoCallInFlight /\ handleChunkUpload_start(s, id, n, d) /\ UNCHANGED notUploadVars
    \/ \E s \in Slots : handleChunkUpload_writeFile(s) /\ UNCHANGED notUploadVars
    \/ \E s \in Slots : handleChunkUpload_resume(s) /\ UNCHANGED notUploadVars
    \/ \E s \in Slots, id \in RequestIds :
            NoCallInFlight /\ assembleChunks_start(s, id) /\ UNCHANGED notUploadVars
    \/ \E s \in Slots : assembleChunks_readFile(s) /\ UNCHANGED notUploadVars
    \/ \E s \in Slots : assembleChunks_rm(s) /\ UNCHANGED notUploadVars
    \/ \E s \in Slots : assembleChunks_return(s) /\ UNCHANGED notUploadVars
    \/ \E s \in Slots, r \in RepoIds, id \in RequestIds :
            NoCallInFlight /\ finalize_start(s, r, id) /\ UNCHANGED notUploadVars

Spec == Init /\ [][Next]_vars

\* Chunk uploads that overlap: handleChunkUpload awaits fs.writeFile, and the
\* steps of another call run in between. The client declares the chunk count
\* that goes with the size.
NextChunks ==
    \/ \E f \in Filenames, ts \in TotalSizes :
            /\ initializeChunkedUpload(f, ts, CeilDiv(ts, CHUNK_SIZE))
            /\ UNCHANGED notUploadVars
    \/ \E s \in Slots, id \in RequestIds, n \in ChunkNumbers, d \in ChunkData :
            handleChunkUpload_start(s, id, n, d) /\ UNCHANGED notUploadVars
    \/ \E s \in Slots : handleChunkUpload_writeFile(s) /\ UNCHANGED notUploadVars
    \/ \E s \in Slots : handleChunkUpload_resume(s) /\ UNCHANGED notUploadVars

SpecChunks == Init /\ [][NextChunks]_vars

\* Chunk uploads, assemblies and finalize requests that overlap.
NextOverlap ==
    \/ NextChunks
    \/ \E s \in Slots, id \in RequestIds :
            assembleChunks_start(s, id) /\ UNCHANGED notUploadVars
    \/ \E s \in Slots : assembleChunks_readFile(s) /\ UNCHANGED notUploadVars
    \/ \E s \in Slots : assembleChunks_rm(s) /\ UNCHANGED notUploadVars
    \/ \E s \in Slots : assembleChunks_return(s) /\ UNCHANGED notUploadVars
    \/ \E s \in Slots, r \in RepoIds, id \in RequestIds :
            finalize_start(s, r, id) /\ UNCHANGED notUploadVars

SpecOverlap == Init /\ [][NextOverlap]_vars

\* One execute call and its child process.
NextExec ==
    \/ \E t \in Timeouts, m \in MaxBuffers, e \in SpawnErrors \cup {""} :
            execute(t, m, e) /\ UNCHANGED notExecVars
    \/ \E d \in DataChunks : stdout_data(d) /\ UNCHANGED notExecVars
    \/ \E d \in DataChunks : stderr_data(d) /\ UNCHANGED notExecVars
    \/ child_timeout /\ UNCHANGED notExecVars
    \/ child_error /\ UNCHANGED notExecVars
    \/ \E c \in ExitCodes, k \in BOOLEAN : child_close(c, k) /\ UNCHANGED notExecVars

SpecExec == Init /\ [][NextExec]_vars

\* The upload tracker over time: requests served one after the other while the
\* clock advances and the cleanup timer fires.
NextSweep ==
    \/ Next
    \/ tick /\ UNCHANGED notTimerVars
    \/ sweep /\ UNCHANGED notTimerVars

SpecSweep == Init /\ [][NextSweep]_vars

\* No request is between its arrival and its response.
NoRequestInFlight == \A k \in ReqSlots : req[k].pc = "idle"

\* Requests through authMiddleware, one at a time, while rows of the users
\* table come and go.
NextAuth ==
    \/ \E sid \in SessionIds, mode \in AuthModes, route \in Routes :
            /\ NoRequestInFlight
            /\ authMiddleware_start(1, sid, mode, route)
            /\ UNCHANGED notAuthVars
    \/ \E threw \in BOOLEAN : authMiddleware_findById(1, threw) /\ UNCHANGED notAuthVars
    \/ authMiddleware_resume(1) /\ UNCHANGED notAuthVars
    \/ \E threw \in BOOLEAN : authMiddleware_devFirst(1, threw) /\ UNCHANGED notAuthVars
    \/ \E threw \in BOOLEAN : authMiddleware_devInsert(1, threw) /\ UNCHANGED notAuthVars
    \/ \E err \in BOOLEAN : logout_destroy(1, err) /\ UNCHANGED notAuthVars
    \/ \E ok \in BOOLEAN : oauth_authenticate(1, ok) /\ UNCHANGED notAuthVars
    \/ \E u \in {DevUser, OAuthUser} : deleteUser(u) /\ UNCHANGED notAuthVars

SpecAuth == Init /\ [][NextAuth]_vars

\* Requests through authMiddleware that overlap: each await of one request
\* lets the steps of the others run. The requests are to the routes that do
\* not go through an OAuth provider.
NextAuthConcurrent ==
    \/ \E k \in ReqSlots, sid \in SessionIds, mode \in AuthModes,
          route \in Routes \ {"oauth-callback"} :
            authMiddleware_start(k, sid, mode, route) /\ UNCHANGED notAuthVars
    \/ \E k \in ReqSlots, threw \in BOOLEAN :
            authMiddleware_findById(k, threw) /\ UNCHANGED notAuthVars
    \/ \E k \in ReqSlots : authMiddleware_resume(k) /\ UNCHANGED notAuthVars
    \/ \E k \in ReqSlots, threw \in BOOLEAN :
            authMiddleware_devFirst(k, threw) /\ UNCHANGED notAuthVars
    \/ \E k \in ReqSlots, threw \in BOOLEAN :
            authMiddleware_devInsert(k, threw) /\ UNCHANGED notAuthVars
    \/ \E k \in ReqSlots, err \in BOOLEAN : logout_destroy(k, err) /\ UNCHANGED notAuthVars

SpecAuthConcurrent == Init /\ [][NextAuthConcurrent]_vars

\* Names createBranch is called with: every string of at most MaxNameLen
\* characters of NameChars, and some longer ones.
NameChars == {"a", "Z", "9", "_", "-", "/", ".", " ", "~"}
ShortNames == UNION {[1..n -> NameChars] : n \in 0..MaxNameLen}
LongNames == {main, MAIN, master, dev,
              <<"H", "E", "A", "D">>, <<"h", "e", "a", "d">>, <<"H", "e", "a", "d">>,
              <<"F", "E", "T", "C", "H", "_", "H", "E", "A", "D">>,
              <<"O", "R", "I", "G", "_", "H", "E", "A", "D">>,
              <<"o", "r", "i", "g", "_", "h", "e", "a", "d">>,
              <<"f", "i", "x", "/", "/", "u", "i">>, <<"f", "i", "x", "/", "u", "i">>}
Names == ShortNames \cup LongNames
\* Names the other branch operations are called with.
BranchArgs == {main, MAIN, master, dev}

\* The Git operations, called one after the other on one repository: the
\* facade (GitCommand), BranchService and FileOperationsService.
NextGit ==
    \/ \E r \in GitResults :
            Called("init", <<>>, FALSE, <<>>, GitCommand_init(NewRun, r))
            /\ UNCHANGED notGitVars
    \/ \E r \in GitResults :
            Called("clone", <<>>, FALSE, <<>>, GitCommand_clone(NewRun, r))
            /\ UNCHANGED notGitVars
    \/ \E f \in Files, r \in GitResults :
            Called("add", <<>>, FALSE, <<>>, GitCommand_add(NewRun, f, r))
            /\ UNCHANGED notGitVars
    \/ \E r \in CommitResults :
            Called("commit", <<>>, FALSE, <<>>, GitCommand_commit(NewRun, r))
            /\ UNCHANGED notGitVars
    \/ \E r \in GitResults :
            Called("push", <<>>, FALSE, <<>>, GitCommand_push(NewRun, r))
            /\ UNCHANGED notGitVars
    \/ \E r \in GitResults :
            Called("pull", <<>>, FALSE, <<>>, GitCommand_pull(NewRun, r))
            /\ UNCHANGED notGitVars
    \/ \E r \in GitResults :
            Called("lfsInstall", <<>>, FALSE, <<>>, GitCommand_lfsInstall(NewRun, r))
            /\ UNCHANGED notGitVars
    \/ \E r \in GitResults :
            Called("lfsTrack", <<>>, FALSE, <<>>, GitCommand_lfsTrack(NewRun, "*.bin", r))
            /\ UNCHANGED notGitVars
    \/ \E r \in LfsTrackResults :
            Called("lfsTrackedPatterns", <<>>, FALSE, <<>>,
                   GitCommand_lfsTrackedPatterns(NewRun, r))
            /\ UNCHANGED notGitVars
    \/ \E h \in Branches, rl \in BranchListResults, rs \in [1..2 -> GitResults] :
        \E rc \in RevParseResults(h) :
            Called("listBranches", <<>>, FALSE, h, BranchService_listBranches(rc, rl, rs))
            /\ UNCHANGED notGitVars
    \/ \E n \in Names, r \in GitResults :
            Called("createBranch", n, FALSE, <<>>, BranchService_createBranch(n, r))
            /\ UNCHANGED notGitVars
    \/ \E n \in BranchArgs, r \in GitResults :
            Called("switchBranch", n, FALSE, <<>>, BranchService_switchBranch(n, r))
            /\ UNCHANGED notGitVars
    \/ \E n \in BranchArgs, f \in BOOLEAN, h \in Branches, r \in GitResults :
        \E rc \in RevParseResults(h) :
            Called("deleteBranch", n, f, h, BranchService_deleteBranch(n, f, rc, r))
            /\ UNCHANGED notGitVars
    \/ \E n \in BranchArgs, h \in Branches, r \in GitResults :
        \E rc \in RevParseResults(h) :
            Called("mergeBranch", n, FALSE, h, BranchService_mergeBranch(n, rc, r))
            /\ UNCHANGED notGitVars
    \/ \E ra \in RevListResults, rb \in RevListResults :
            Called("compareBranches", <<>>, FALSE, <<>>,
                   BranchService_compareBranches(ra, rb))
            /\ UNCHANGED notGitVars
    \/ \E f \in Files, size \in FileSizes, rv \in GitResults, rt \in LfsTrackResults,
          rt2 \in LfsTrackResults, rk \in GitResults, ra \in GitResults,
          rd \in GitResults, rc \in CommitResults :
            Called("uploadFile", <<>>, FALSE, <<>>,
                   FileOperationsService_uploadFile(f, size, rv, rt, rt2, rk, ra, rd, rc))
            /\ UNCHANGED notGitVars
    \/ \E f \in Files, e \in BOOLEAN, rr \in GitResults, rc \in CommitResults :
            Called("deleteFile", <<>>, FALSE, <<>>,
                   FileOperationsService_deleteFile(f, e, rr, rc))
            /\ UNCHANGED notGitVars
    \/ \E e \in BOOLEAN, rr \in GitResults, rc \in CommitResults :
            Called("moveFile", <<>>, FALSE, <<>>,
                   FileOperationsService_moveFile("demo.bin", "README", e, rr, rc))
            /\ UNCHANGED notGitVars
    \/ returned /\ UNCHANGED notGitVars

SpecGit == Init /\ [][NextGit]_vars

\* The event loop runs every queued callback: the 'error' of a failed spawn is
\* emitted.
SpecExecFair == SpecExec /\ WF_vars(child_error /\ UNCHANGED notExecVars)

\* Calls of the service, one at a time.
NextRepo ==
    \/ \E user \in Owners, name \in RepoNames :
            /\ NoRepoCallInFlight
            /\ createRepository_start(1, user, name)
            /\ UNCHANGED notRepoVars
    \/ createRepository_existing(1) /\ UNCHANGED notRepoVars
    \/ \E ok \in BOOLEAN : createRepository_init(1, ok) /\ UNCHANGED notRepoVars
    \/ createRepository_insert(1) /\ UNCHANGED notRepoVars
    \/ \E id \in 1..MaxRepos, user \in Owners :
            getRepository(1, id, user) /\ UNCHANGED notRepoVars
    \/ \E user \in Owners : listUserRepositories(1, user) /\ UNCHANGED notRepoVars
    \/ \E id \in 1..MaxRepos, user \in Owners :
            /\ NoRepoCallInFlight
            /\ deleteRepository_start(1, id, user)
            /\ UNCHANGED notRepoVars
    \/ deleteRepository_get(1) /\ UNCHANGED notRepoVars
    \/ deleteRepository_patch(1) /\ UNCHANGED notRepoVars
    \/ \E ok \in BOOLEAN : deleteRepository_rm(1, ok) /\ UNCHANGED notRepoVars

SpecRepo == Init /\ [][NextRepo]_vars

\* Calls of the service that overlap: every await of one call lets the steps
\* of the others run.
NextRepoConcurrent ==
    \/ \E k \in RepoSlots, user \in Owners, name \in RepoNames :
            createRepository_start(k, user, name) /\ UNCHANGED notRepoVars
    \/ \E k \in RepoSlots : createRepository_existing(k) /\ UNCHANGED notRepoVars
    \/ \E k \in RepoSlots, ok \in BOOLEAN :
            createRepository_init(k, ok) /\ UNCHANGED notRepoVars
    \/ \E k \in RepoSlots : createRepository_insert(k) /\ UNCHANGED notRepoVars
    \/ \E k \in RepoSlots, id \in 1..MaxRepos, user \in Owners :
            getRepository(k, id, user) /\ UNCHANGED notRepoVars
    \/ \E k \in RepoSlots, user \in Owners :
            listUserRepositories(k, user) /\ UNCHANGED notRepoVars
    \/ \E k \in RepoSlots, id \in 1..MaxRepos, user \in Owners :
            deleteRepository_start(k, id, user) /\ UNCHANGED notRepoVars
    \/ \E k \in RepoSlots : deleteRepository_get(k) /\ UNCHANGED notRepoVars
    \/ \E k \in RepoSlots : deleteRepository_patch(k) /\ UNCHANGED notRepoVars
    \/ \E k \in RepoSlots, ok \in BOOLEAN :
            deleteRepository_rm(k, ok) /\ UNCHANGED notRepoVars

SpecRepoConcurrent == Init /\ [][NextRepoConcurrent]_vars

\* Requests to the shared-folders router, overlapping at their awaits.
NextFolders ==
    \/ \E k \in FolderSlots, user \in Owners :
            createFolder_start(k, user) /\ UNCHANGED notFolderVars
    \/ \E k \in FolderSlots, owned \in BOOLEAN :
            createFolder_findRepo(k, owned) /\ UNCHANGED notFolderVars
    \/ \E k \in FolderSlots : createFolder_insertFolder(k) /\ UNCHANGED notFolderVars
    \/ \E k \in FolderSlots : createFolder_insertPerm(k) /\ UNCHANGED notFolderVars
    \/ \E k \in FolderSlots, user \in Owners, f \in FolderIds, target \in Owners,
          level \in RequestedLevels :
            grant_start(k, user, f, target, level) /\ UNCHANGED notFolderVars
    \/ \E k \in FolderSlots : grant_adminCheck(k) /\ UNCHANGED notFolderVars
    \/ \E k \in FolderSlots : grant_existing(k) /\ UNCHANGED notFolderVars
    \/ \E k \in FolderSlots : grant_patch(k) /\ UNCHANGED notFolderVars
    \/ \E k \in FolderSlots : grant_insert(k) /\ UNCHANGED notFolderVars
    \/ \E k \in FolderSlots, user \in Owners, f \in FolderIds, target \in Owners :
            revoke_start(k, user, f, target) /\ UNCHANGED notFolderVars
    \/ \E k \in FolderSlots : revoke_adminCheck(k) /\ UNCHANGED notFolderVars
    \/ \E k \in FolderSlots : revoke_count(k) /\ UNCHANGED notFolderVars
    \/ \E k \in FolderSlots : revoke_target(k) /\ UNCHANGED notFolderVars
    \/ \E k \in FolderSlots : revoke_delete(k) /\ UNCHANGED notFolderVars

SpecFolders == Init /\ [][NextFolders]_vars

\* File operations called with client-supplied paths.
NextFiles ==
    \/ \E p \in ClientPaths : listFiles(p) /\ UNCHANGED notFileVars
    \/ \E p \in ClientPaths : uploadFile_write(p) /\ UNCHANGED notFileVars
    \/ \E p \in ClientPaths : downloadFile(p) /\ UNCHANGED notFileVars
    \/ \E p \in ClientPaths : deleteFile_access(p) /\ UNCHANGED notFileVars
    \/ \E p, q \in ClientPaths : moveFile_access(p, q) /\ UNCHANGED notFileVars

SpecFiles == Init /\ [][NextFiles]_vars

\* -------------------------------------------------------------------- claims

\* C1 (as stated): in every reachable state a registered session's completed
\* flag is true if and only if every chunk index in [0, totalChunks) has been
\* received, totalChunks being the count declared at initialization.
C1_CompletedIffAllDeclaredReceived ==
    \A id \in uploadProgress : progressObj[id].completed <=> AllReceived(id)

\* C2 (as stated): handleChunkUpload returns completed = true exactly when,
\* counting the chunk just received, all declared indices 0..n-1 have been
\* received; otherwise completed = false and missingChunks is the ascending list
\* of the declared indices not yet received.
C2_ReturnMatchesDeclaredCount ==
    (event.op = "handleChunkUpload" /\ event.kind = "return" /\ event.id \in uploadProgress) =>
        LET missing == MissingChunks(progressObj[event.id].chunks, declaredChunks[event.id])
        IN IF missing = <<>>
           THEN event.completed
           ELSE ~event.completed /\ event.missingChunks = missing

\* C3 (as stated): assembleChunks called for a session in which a declared index
\* has not been received fails with 'Upload not completed': no such call gets
\* past the check of lines 135-137 and goes on to read, remove and return.
C3_IncompleteNeverAssembled ==
    \A s \in Slots : calls[s].op = "assembleChunks" => calls[s].whole

\* The chunk files of the declared indices 0..n-1, in ascending index order.
StoredInOrder(id) == [i \in 1..declaredChunks[id] |-> chunkFiles[id][i - 1]]

\* C4 (as stated): for an upload whose n declared chunks have all been received,
\* the bytes assembleChunks is about to return (all reads done, cleanup next) are
\* the concatenation of the stored contents of the indices 0..n-1 in ascending
\* order, each contributing exactly once.
C4_ConcatenationByIndex ==
    \A s \in Slots :
        (calls[s].op = "assembleChunks" /\ calls[s].pc = "rm" /\ calls[s].whole) =>
            BufferConcat(calls[s].chunks) = BufferConcat(StoredInOrder(calls[s].id))

\* C5: assembleChunks is one-shot and destructive. Once a call has returned the
\* bytes of an upload, the session is not in the registry (getUploadProgress
\* gives null), its temporary directory is gone, and no assembleChunks call made
\* afterwards for that identifier gets past the check or returns bytes.
C5_OneShotDestructive ==
    /\ \A id \in assembledIds :
            /\ getUploadProgress(id) = Null
            /\ id \notin tempDirs
    /\ \A s \in Slots : calls[s].op = "assembleChunks" => ~calls[s].late
    /\ (event.op = "assembleChunks" /\ event.kind = "return") => ~event.late
    /\ (event.op = "finalize" /\ event.late) => event.status # 200

\* C5 witness: a second assembleChunks call for an assembled upload has failed.
C5_Witness ==
    /\ event.op = "assembleChunks"
    /\ event.kind = "error"
    /\ event.late
    /\ assembledIds # {}

\* C6 (as stated): a finalize request for an upload whose declared chunks have
\* all been received and assembled answers with a success response, having
\* passed the assembled buffer to uploadFile.
C6_FinalizeSucceeds ==
    (event.op = "finalize" /\ event.kind = "response" /\ event.whole) =>
        /\ event.status = 200
        /\ uploadedFiles # <<>>
        /\ uploadedFiles[Len(uploadedFiles)].fileBuffer = event.bytes

\* C7: handleChunkUpload with an identifier that is not in the registry throws
\* 'Upload not found' and changes nothing: the step that throws leaves the
\* registry, every session, the temporary directories and the chunk files as
\* they were, and a chunk write is only ever started for a registered upload.
C7_UnknownUploadRejected ==
    [][ /\ (event'.op = "handleChunkUpload" /\ event'.error = "Upload not found") =>
              UNCHANGED <<uploadProgress, progressObj, nextId, tempDirs, chunkFiles, calls>>
        /\ \A s \in Slots :
              (calls[s].op = "idle" /\ calls'[s].op = "handleChunkUpload") =>
                  /\ calls'[s].id \in uploadProgress
                  /\ event'.kind # "error"
      ]_vars

\* C7 witness: the call has thrown 'Upload not found' while a session exists.
C7_Witness ==
    /\ event.op = "handleChunkUpload"
    /\ event.kind = "error"
    /\ event.error = "Upload not found"
    /\ uploadProgress # {}

\* C8 (as stated): receiving an index that has already been received leaves the
\* bookkeeping as it was: the recorded indices, the received-byte count and the
\* completed flag do not change.
C8_ReReceiveIdempotent ==
    [][ \A s \in Slots :
          ( /\ calls[s].op = "handleChunkUpload"
            /\ calls[s].pc = "written"
            /\ calls'[s].op = "idle"
            /\ Includes(progressObj[calls[s].id].chunks, calls[s].chunkNumber) ) =>
                progressObj'[calls[s].id] = progressObj[calls[s].id]
      ]_vars

\* C9 (as stated): once the timeout has elapsed on a running child and the child
\* has closed, the child was sent SIGKILL and the promise is rejected with a
\* TIMEOUT error; it is never resolved.
C9_TimeoutRejects ==
    (signal # "none" /\ proc = "closed") =>
        /\ signal = "SIGKILL"
        /\ promise.state = "rejected"
        /\ promise.code = "TIMEOUT"

\* C10: when the child emits 'error' (the spawn failed), the promise is rejected
\* with a GitError of code SPAWN_ERROR whose message carries the system error
\* text, the later 'close' does not change that, and a call whose spawn failed
\* does not stay pending.
C10_SpawnErrorRejects ==
    /\ [](proc \in {"errored", "closed"} /\ sysError # "" =>
            /\ promise.state = "rejected"
            /\ promise.code = "SPAWN_ERROR"
            /\ promise.message = <<"Failed to execute git command: ", sysError>>)
    /\ (proc = "spawnError" ~> promise.state = "rejected")

\* C10 witness: a failed spawn has emitted 'error' and then 'close'.
C10_Witness ==
    /\ proc = "closed"
    /\ sysError # ""
    /\ promise.state = "rejected"
    /\ promise.code = "SPAWN_ERROR"

\* The bytes of a sequence of Buffers, and the text their handlers accumulate:
\* each Buffer is decoded on its own.
RECURSIVE ByteCount(_)
ByteCount(bufs) == IF bufs = <<>> THEN 0 ELSE Len(Head(bufs)) + ByteCount(Tail(bufs))

RECURSIVE Decoded(_)
Decoded(bufs) == IF bufs = <<>> THEN <<>> ELSE toString(Head(bufs)) \o Decoded(Tail(bufs))

\* C11: each stream's size counts every byte the child emitted, also after the
\* cap is exceeded; once a stream's size exceeds maxBuffer nothing more is
\* appended to its text; a child that closes with a stream over the cap gives a
\* BUFFER_EXCEEDED rejection; and a resolved call has both sizes within the cap
\* and carries the trimmed text of every chunk emitted, none dropped.
C11_BufferCap ==
    /\ [](/\ stdoutSize = ByteCount(emitted.stdout)
          /\ stderrSize = ByteCount(emitted.stderr)
          /\ (proc = "closed" /\ (stdoutSize > opts.maxBuffer \/ stderrSize > opts.maxBuffer)) =>
                (promise.state = "rejected" /\ promise.code = "BUFFER_EXCEEDED")
          /\ promise.state = "resolved" =>
                /\ stdoutSize <= opts.maxBuffer
                /\ stderrSize <= opts.maxBuffer
                /\ promise.stdout = Trim(Decoded(emitted.stdout))
                /\ promise.stderr = Trim(Decoded(emitted.stderr)))
    /\ [][ /\ stdoutSize > opts.maxBuffer => stdout' = stdout
           /\ stderrSize > opts.maxBuffer => stderr' = stderr ]_vars

\* C11 witness: the child went on writing to a stream that was already over the
\* cap, then closed, and the call was rejected.
C11_Witness ==
    /\ proc = "closed"
    /\ promise.code = "BUFFER_EXCEEDED"
    /\ \/ stdoutSize > opts.maxBuffer + 1 /\ Len(stdout) < stdoutSize - 1
       \/ stderrSize > opts.maxBuffer + 1 /\ Len(stderr) < stderrSize - 1

\* C12: a child that was started, was not sent the timeout signal, stayed
\* within both output caps and closed with its exit code gives a resolved
\* promise carrying the trimmed stdout and stderr and that exit code, zero or
\* not.
C12_NormalExitResolves ==
    ( /\ proc = "closed"
      /\ sysError = ""
      /\ signal = "none"
      /\ stdoutSize <= opts.maxBuffer
      /\ stderrSize <= opts.maxBuffer ) =>
        /\ promise.state = "resolved"
        /\ promise.stdout = Trim(Decoded(emitted.stdout))
        /\ promise.stderr = Trim(Decoded(emitted.stderr))
        /\ promise.exitCode = closeCode

\* C12 witness: a child that wrote output ending in whitespace exited non-zero
\* and the call resolved.
C12_Witness ==
    /\ proc = "closed"
    /\ sysError = ""
    /\ signal = "none"
    /\ closeCode = 128
    /\ promise.state = "resolved"
    /\ promise.stdout # <<>>
    /\ Len(promise.stdout) < Len(Decoded(emitted.stdout))

\* The operations of the Git facade that the branch and command services offer.
FacadeOps ==
    {"init", "clone", "add", "commit", "push", "pull", "listBranches",
     "createBranch", "switchBranch", "deleteBranch", "mergeBranch",
     "compareBranches", "lfsInstall", "lfsTrack", "lfsTrackedPatterns"}

\* C13 (as stated): a call of a Git facade operation issues exactly one
\* subprocess through execute; the only call that issues none is one whose
\* arguments were refused before any command was built.
C13_OneSubprocessPerCall ==
    gitOp.name \in FacadeOps =>
        \/ Len(gitRun.calls) = 1
        \/ Len(gitRun.calls) = 0 /\ gitRun.error.code = "Error"

\* Commands an operation runs to ask a question, whose failure is an answer:
\* rev-parse (no current branch), lfs version (LFS not installed), lfs track
\* without a pattern (no patterns), log -1 (no last commit).
IsProbe(call) ==
    \/ call.args[1] \in {"rev-parse", "log"}
    \/ Len(call.args) = 2 /\ call.args[1] = "lfs" /\ call.args[2] \in {"version", "track"}

\* git commit that exited non-zero reporting that there is nothing to commit.
NothingToCommit(call) ==
    /\ call.args[1] = "commit"
    /\ call.result.exitCode # 0
    /\ \/ TextIncludes(call.result.stdout, "nothing to commit")
       \/ TextIncludes(call.result.stderr, "nothing to commit")

\* C14 (as stated): when a git subprocess of an operation exits non-zero, and
\* it is not commit reporting nothing to commit, the operation ends with an
\* error and that subprocess is the last one it issued.
C14_FailurePropagates ==
    \A i \in 1..Len(gitRun.calls) :
        LET call == gitRun.calls[i] IN
        (/\ ~call.result.rejected
         /\ call.result.exitCode # 0
         /\ ~IsProbe(call)
         /\ ~NothingToCommit(call))
        => gitRun.error # NoError /\ i = Len(gitRun.calls)

\* C15 (as stated): a commit that git refuses because there is nothing to
\* commit is a no-op: gitCommand.commit, and an uploadFile whose commit step
\* meets it, complete without an error.
C15_NothingToCommitIsNoOp ==
    (/\ gitOp.name \in {"commit", "uploadFile"}
     /\ Len(gitRun.calls) > 0
     /\ NothingToCommit(gitRun.calls[Len(gitRun.calls)]))
    => gitRun.error = NoError

\* The run issued `git branch -d` or `git branch -D`.
IssuedBranchDelete(run) ==
    \E i \in 1..Len(run.calls) :
        run.calls[i].args[1] = "branch" /\ run.calls[i].args[2] \in {"-d", "-D"}

\* C16 (as stated): deleteBranch of main, of master, or of the branch that is
\* checked out ends with an error and issues no `git branch -d` or
\* `git branch -D`, whatever the force flag.
C16_ProtectedBranchNotDeleted ==
    (/\ gitOp.name = "deleteBranch"
     /\ gitOp.branchName \in {main, master, gitOp.head})
    => gitRun.error # NoError /\ ~IssuedBranchDelete(gitRun)

\* createBranch refused the name: it threw before building a command.
NameRejected ==
    Len(gitRun.calls) = 0 /\ gitRun.error = Error("Invalid branch name")

\* createBranch accepted the name: it went on to run git checkout -b with it.
NameAccepted ==
    /\ Len(gitRun.calls) = 1
    /\ gitRun.calls[1].args = <<"checkout", "-b", gitOp.branchName>>

\* The names the specification lists as refused.
ListedAsRejected(name) ==
    \/ HasChar(name, " ")
    \/ HasPair(name, ".", ".")
    \/ Len(name) > 0 /\ name[1] = "-"
    \/ Len(name) > 0 /\ name[Len(name)] = "/"
    \/ name \in Reserved

\* C17 (as stated): createBranch refuses every name that contains a space or
\* '..', starts with '-', ends with '/', or equals HEAD, FETCH_HEAD or ORIG_HEAD,
\* and accepts every other name that matches [a-zA-Z0-9/_-]+.
C17_Original ==
    gitOp.name = "createBranch" =>
        /\ ListedAsRejected(gitOp.branchName) => NameRejected
        /\ (~ListedAsRejected(gitOp.branchName) /\ MatchesNameRegex(gitOp.branchName))
           => NameAccepted

\* C17 (amended): createBranch refuses every name that contains a space, '..'
\* or '//', starts with '-', ends with '/', equals HEAD, FETCH_HEAD or ORIG_HEAD
\* in any letter case, or does not match [a-zA-Z0-9/_-]+; it accepts every
\* other name.
C17_BranchNameValidation ==
    gitOp.name = "createBranch" =>
        LET name == gitOp.branchName
            refused == \/ ListedAsRejected(name)
                       \/ HasPair(name, "/", "/")
                       \/ ToUpperCase(name) \in Reserved
                       \/ ~MatchesNameRegex(name)
        IN IF refused THEN NameRejected ELSE NameAccepted

\* createBranch refused a name with an empty path component that the listed
\* rules alone would let through.
C17_Witness ==
    /\ gitOp.name = "createBranch"
    /\ HasPair(gitOp.branchName, "/", "/")
    /\ ~ListedAsRejected(gitOp.branchName)
    /\ MatchesNameRegex(gitOp.branchName)
    /\ NameRejected

\* Sessions of the registry that are not completed and were last written to
\* (by initialization or by the recording of a chunk) more than an hour ago.
Inactive ==
    {id \in uploadProgress :
        /\ ~progressObj[id].completed
        /\ now - progressObj[id].touchedAt > ONE_HOUR}

\* C18 (as stated): a pass of the cleanup timer removes from the registry
\* exactly the sessions that are not completed and have been inactive for more
\* than one hour; a completed session and a session that received a chunk
\* within the last hour stay.
C18_SweepByInactivity ==
    [][lastSweep' # lastSweep => uploadProgress \ uploadProgress' = Inactive]_vars

\* C19 (as stated): whenever no request is in flight, every temporary chunk
\* directory that exists belongs to a session present in the registry: a
\* session that left the registry, by assembly or by the cleanup timer, left
\* no directory behind.
C19_NoOrphanChunkDirectory ==
    NoCallInFlight => tempDirs \subseteq uploadProgress

\* C20: outside dev mode, the handler behind requireAuth ran exactly for the
\* requests whose session carried a user id that the lookup of authMiddleware
\* found in the users table; a request whose session carried no user id (a
\* fresh or destroyed session), whose user row was gone, or whose lookup threw,
\* was answered 401 'Authentication required' and the handler did not run.
C20_RequireAuthGate ==
    (res.route = "protected" /\ res.mode = "production") =>
        IF res.userId # NoUser /\ res.found /\ ~res.threw
        THEN res.handlerRan /\ res.status # 401
        ELSE /\ res.status = 401
             /\ res.error = "Authentication required"
             /\ ~res.handlerRan

\* A request outside dev mode whose session carries the id of a user whose row
\* has been deleted was answered 401.
C20_Witness ==
    /\ res.route = "protected"
    /\ res.mode = "production"
    /\ res.userId = DevUser
    /\ ~res.found
    /\ ~res.threw
    /\ res.status = 401
    /\ ~res.handlerRan


\* C21: in dev mode every request behind requireAuth whose database calls did
\* not fail on their own is authenticated as the development user: its handler
\* runs for that user, also when the request arrived while another first
\* request was still creating the row.
C21_DevModeAlwaysAuthenticated ==
    (res.mode = "dev" /\ res.route = "protected" /\ (res.threw => res.conflict)) =>
        /\ res.handlerRan
        /\ res.user = DevUser

\* C22: once deleteRepository(id, owner) has returned normally, a later
\* getRepository for that id returns null, listUserRepositories does not list
\* it, and, when no call is in flight, its working tree is not on disk.
C22_DeletedRepositoryIsGone ==
    /\ (repoRet.op = "getRepository" /\ repoRet.id \in deletedIds) => repoRet.row = 0
    /\ repoRet.op = "listUserRepositories" => repoRet.rows \cap deletedIds = {}
    /\ NoRepoCallInFlight =>
           \A r \in repoRows : r.id \in deletedIds => r.local_path \notin workTrees

\* C28: no two rows of the repositories table have the same owner and name.
C28_OwnerNameUnique ==
    \A r1, r2 \in repoRows :
        (r1.owner_id = r2.owner_id /\ r1.name = r2.name) => r1.id = r2.id

\* C24: for every session in the registry, every recorded chunk index lies in
\* [0, totalChunks), totalChunks being the count declared at initialization.
C24_ChunkIndicesInRange ==
    \A id \in uploadProgress :
        \A n \in Received(id) : 0 <= n /\ n < declaredChunks[id]

\* C25: of the assembleChunks calls on one upload at most one returns the
\* assembled bytes: no call returns bytes for an upload whose bytes another
\* call has already returned.
C25_AtMostOneAssemblyReturns ==
    [][\A s \in Slots :
          (calls[s].op = "assembleChunks" /\ calls[s].pc = "removed" /\ calls'[s].op = "idle")
              => calls[s].id \notin assembledIds]_vars

\* C26: an assembleChunks call that began with every index 0..n-1 recorded
\* exactly once returns exactly n pieces, whatever chunk uploads ran while it
\* was reading.
C26_AssemblyUnaffectedByLateChunk ==
    [][\A s \in Slots :
          (/\ calls[s].op = "assembleChunks"
           /\ calls[s].pc = "removed"
           /\ calls'[s].op = "idle"
           /\ calls[s].whole
           /\ calls[s].count = declaredChunks[calls[s].id])
              => Len(calls[s].chunks) = calls[s].count]_vars

\* The indices 0..totalChunks-1 of a session, totalChunks being computed from
\* its total size as handleChunkUpload computes it, are all recorded.
NothingMissing(id) ==
    \A i \in 0..(CeilDiv(progressObj[id].totalSize, CHUNK_SIZE) - 1) : i \in Received(id)

\* C23: with chunk uploads overlapping in every way, a call that found its
\* session does not fail; every chunk written is recorded, or is about to be
\* by the call that wrote it; a session with no index missing is completed;
\* and a call returns completed = true exactly when no index is missing, so
\* the call that records the last missing index does.
C23_OverlappingChunksAllRecorded ==
    /\ (event.op = "handleChunkUpload" /\ event.kind = "error")
           => event.error = "Upload not found"
    /\ \A id \in uploadProgress :
           /\ \A n \in ChunkNumbers :
                  chunkFiles[id][n] # NoFile =>
                      \/ n \in Received(id)
                      \/ \E s \in Slots : /\ calls[s].op = "handleChunkUpload"
                                          /\ calls[s].pc = "written"
                                          /\ calls[s].id = id
                                          /\ calls[s].chunkNumber = n
           /\ NothingMissing(id) => progressObj[id].completed
    /\ (event.op = "handleChunkUpload" /\ event.kind = "return")
           => (event.completed <=> NothingMissing(event.id))

\* Two calls with indices 0 and 1 of a two-chunk upload overlapped: the one
\* that arrived second has recorded its index and returned while the first is
\* still between its write and its resumption.
C23_Witness ==
    /\ progressObj[1].totalSize = CHUNK_SIZE + 1
    /\ progressObj[1].chunks = <<1>>
    /\ calls[1].op = "handleChunkUpload"
    /\ calls[1].pc = "written"
    /\ calls[1].id = 1
    /\ calls[1].chunkNumber = 0
    /\ calls[2].op = "idle"
    /\ event.op = "handleChunkUpload"
    /\ event.kind = "return"
    /\ ~event.completed

\* C27: every shared folder whose creation request has been answered has at
\* least one user with admin permission.
C27_FolderHasAdmin ==
    \A f \in folders :
        (\A k \in FolderSlots : ~(folderCalls[k].op = "create" /\ folderCalls[k].folder = f))
            => Admins(f) # {}

\* C29: every path a file operation reads or writes is the repository's
\* working tree or lies below it.
C29_PathsInsideWorkingTree ==
    \A p \in fileOp.read \cup fileOp.written : Inside(p, LocalPath)

\* C30: outside dev mode, a request to a route behind requireAuth whose
\* session carries the user id passport stored at the OAuth login, with that
\* user's row in the table and no failing lookup, is authenticated as that
\* user: its handler runs.
C30_OAuthSessionAuthenticated ==
    (/\ res.route = "protected"
     /\ res.mode = "production"
     /\ res.passportUser # NoUser
     /\ res.passportUser \in users
     /\ ~res.threw)
        => /\ res.handlerRan
           /\ res.user = res.passportUser

====
